---- MODULE Spec2Model ----
(***************************************************************************)
(* Node numbering of the triangular sub-mesh of a 2:1 balanced quadtree    *)
(* forest (p4est_tnodes).  Every rank runs p4est_tnodes_new: it traverses  *)
(* its leaves, faces and corners (iter_volume1, iter_face1, iter_corner1), *)
(* elects owners (owned_query_reply), posts the first messages             *)
(* (post_query_reply), sorts and all-gathers (sort_allgather), sorts its   *)
(* peers (sort_peers), drains the query/reply exchange (wait_query_reply)  *)
(* and finalizes (assign_element_nodes, populate_sharers).                 *)
(*                                                                         *)
(* C arrays are sequences here: C index i is element i + 1 (At, Upd).      *)
(***************************************************************************)
EXTENDS Integers, Sequences, FiniteSets, TLC

(***************************************************************************)
(* Bounds of the model.                                                    *)
(***************************************************************************)
\* number of processes (mpisize)
NumRanks == 3
\* at most this many of the four level-1 quadrants are refined once more
MaxRefine == 1
\* the most leaves one rank holds
MaxLocal == 3
\* the most candidates in the registry when node_register is called freely
MaxCand == 1

Ranks == 0 .. (NumRanks - 1)

(***************************************************************************)
(* Generic helpers.                                                        *)
(***************************************************************************)
At(s, i) == s[i + 1]
Upd(s, i, v) == [s EXCEPT ![i + 1] = v]
MinOf(S) == CHOOSE m \in S : \A n \in S : m <= n
Fill(n, v) == [i \in 1 .. n |-> v]

RECURSIVE SortedSeq(_)
SortedSeq(S) == IF S = {} THEN << >>
                ELSE LET m == MinOf(S) IN << m >> \o SortedSeq(S \ {m})

RECURSIVE Flatten(_)
Flatten(ss) == IF ss = << >> THEN << >> ELSE Head(ss) \o Flatten(Tail(ss))

RECURSIVE SumSeq(_)
SumSeq(s) == IF s = << >> THEN 0 ELSE Head(s) + SumSeq(Tail(s))

Range(s) == {s[i] : i \in DOMAIN s}

(***************************************************************************)
(* Node position schema and configuration tables.                          *)
(***************************************************************************)
n_ccorn == << 0, 1, 2, 3 >>
n_center == 4
n_mface == << 5, 6, 7, 8 >>
n_cface == << 9, 10, 11, 12 >>
n_split == << 14, 17, 20, 22 >>
n_hface == << << 13, 15 >>, << 16, 18 >>, << 19, 21 >>, << 23, 24 >> >>

p4est_tnodes_config_count ==
  << << 4, 5 >>,
     << 6, 10 >>, << 6, 10 >>,
     << 7, 12 >>,
     << 6, 10 >>,
     << 7, 12 >>, << 7, 12 >>,
     << 8, 14 >>,
     << 6, 10 >>,
     << 7, 12 >>, << 7, 12 >>,
     << 8, 14 >>,
     << 7, 12 >>,
     << 8, 14 >>, << 8, 14 >>,
     << 9, 16 >>,
     << 4, 5 >>,
     << 5, 8 >> >>

p4est_tnodes_config_corners ==
  << << 0, 1, 2, 3, -1, -1, -1, -1, -1 >>,
     << 0, 1, 2, 3, 4, 5, -1, -1, -1 >>,
     << 0, 1, 2, 3, 4, 6, -1, -1, -1 >>,
     << 0, 1, 2, 3, 4, 5, 6, -1, -1 >>,
     << 0, 1, 2, 3, 4, 7, -1, -1, -1 >>,
     << 0, 1, 2, 3, 4, 5, 7, -1, -1 >>,
     << 0, 1, 2, 3, 4, 6, 7, -1, -1 >>,
     << 0, 1, 2, 3, 4, 5, 6, 7, -1 >>,
     << 0, 1, 2, 3, 4, 8, -1, -1, -1 >>,
     << 0, 1, 2, 3, 4, 5, 8, -1, -1 >>,
     << 0, 1, 2, 3, 4, 6, 8, -1, -1 >>,
     << 0, 1, 2, 3, 4, 5, 6, 8, -1 >>,
     << 0, 1, 2, 3, 4, 7, 8, -1, -1 >>,
     << 0, 1, 2, 3, 4, 5, 7, 8, -1 >>,
     << 0, 1, 2, 3, 4, 6, 7, 8, -1 >>,
     << 0, 1, 2, 3, 4, 5, 6, 7, 8 >>,
     << 0, 1, 2, 3, -1, -1, -1, -1, -1 >>,
     << 0, 1, 2, 3, 4, -1, -1, -1, -1 >> >>

p4est_tnodes_config_faces ==
  << << 4, 5, 6, 7, 8, -1, -1, -1, -1, -1, -1, -1, -1, -1, -1, -1 >>,
     << 6, 7, 8, 9, 10, 11, 12, 13, 14, 15, -1, -1, -1, -1, -1, -1 >>,
     << 5, 7, 8, 9, 10, 11, 12, 16, 17, 18, -1, -1, -1, -1, -1, -1 >>,
     << 7, 8, 9, 10, 11, 12, 13, 14, 15, 16, 17, 18, -1, -1, -1, -1 >>,
     << 5, 6, 8, 9, 10, 11, 12, 19, 20, 21, -1, -1, -1, -1, -1, -1 >>,
     << 6, 8, 9, 10, 11, 12, 13, 14, 15, 19, 20, 21, -1, -1, -1, -1 >>,
     << 5, 8, 9, 10, 11, 12, 16, 17, 18, 19, 20, 21, -1, -1, -1, -1 >>,
     << 8, 9, 10, 11, 12, 13, 14, 15, 16, 17, 18, 19, 20, 21, -1, -1 >>,
     << 5, 6, 7, 9, 10, 11, 12, 22, 23, 24, -1, -1, -1, -1, -1, -1 >>,
     << 6, 7, 9, 10, 11, 12, 13, 14, 15, 22, 23, 24, -1, -1, -1, -1 >>,
     << 5, 7, 9, 10, 11, 12, 16, 17, 18, 22, 23, 24, -1, -1, -1, -1 >>,
     << 7, 9, 10, 11, 12, 13, 14, 15, 16, 17, 18, 22, 23, 24, -1, -1 >>,
     << 5, 6, 9, 10, 11, 12, 19, 20, 21, 22, 23, 24, -1, -1, -1, -1 >>,
     << 6, 9, 10, 11, 12, 13, 14, 15, 19, 20, 21, 22, 23, 24, -1, -1 >>,
     << 5, 9, 10, 11, 12, 16, 17, 18, 19, 20, 21, 22, 23, 24, -1, -1 >>,
     << 9, 10, 11, 12, 13, 14, 15, 16, 17, 18, 19, 20, 21, 22, 23, 24 >>,
     << 4, 5, 6, 7, 8, -1, -1, -1, -1, -1, -1, -1, -1, -1, -1, -1 >>,
     << 5, 6, 7, 8, 9, 10, 11, 12, -1, -1, -1, -1, -1, -1, -1, -1 >> >>

\* the two codimensions of a node (p4est_connect_type_t)
P4EST_CONNECT_FACE == "face"
P4EST_CONNECT_CORNER == "corner"

(***************************************************************************)
(* The forest: one tree, the unit square.  A quadrant is its lower left    *)
(* corner, its side length in units of the finest cell, and its level.     *)
(* The leaves are listed in Morton order, as a forest stores them.         *)
(***************************************************************************)
RootQuad == [x |-> 0, y |-> 0, len |-> 4, level |-> 0]

Child(q, c) ==
  [x |-> q.x + (c % 2) * (q.len \div 2),
   y |-> q.y + (c \div 2) * (q.len \div 2),
   len |-> q.len \div 2,
   level |-> q.level + 1]

p4est_quadrant_child_id(q) ==
  IF q.level = 0 THEN 0
  ELSE ((q.x \div q.len) % 2) + 2 * ((q.y \div q.len) % 2)

\* the leaves of the forest in which the level-1 quadrants of R are refined
LeavesOf(R) ==
  Flatten([c \in 1 .. 4 |->
             LET q == Child(RootQuad, c - 1)
             IN IF (c - 1) \in R
                  THEN [d \in 1 .. 4 |-> Child(q, d - 1)]
                  ELSE << q >>])

\* corner numbers of a face and face numbers of a corner
p4est_face_corners == << << 0, 2 >>, << 1, 3 >>, << 0, 1 >>, << 2, 3 >> >>

Contains(q, c) ==
  /\ q.x <= c[1] /\ c[1] < q.x + q.len
  /\ q.y <= c[2] /\ c[2] < q.y + q.len

\* the unit cells that leaves may cover: three trees of half the length of
\* RootQuad fit in a row
DomainWidth == 6

InDomain(c) ==
  /\ 0 <= c[1] /\ c[1] < DomainWidth
  /\ 0 <= c[2] /\ c[2] < RootQuad.len

\* the unit cells on the other side of face f of quadrant q
FaceCells(q, f) ==
  CASE f = 0 -> {<< q.x - 1, q.y + k >> : k \in 0 .. (q.len - 1)}
    [] f = 1 -> {<< q.x + q.len, q.y + k >> : k \in 0 .. (q.len - 1)}
    [] f = 2 -> {<< q.x + k, q.y - 1 >> : k \in 0 .. (q.len - 1)}
    [] OTHER -> {<< q.x + k, q.y + q.len >> : k \in 0 .. (q.len - 1)}

\* global numbers (from 0) of the leaves across face f of leaf g
FaceNeighbors(quads, g, f) ==
  {h \in 0 .. (Len(quads) - 1) :
     \E c \in FaceCells(At(quads, g), f) : Contains(At(quads, h), c)}

IsBoundaryFace(quads, g, f) ==
  \A c \in FaceCells(At(quads, g), f) :
    \/ ~InDomain(c)
    \/ \A h \in 0 .. (Len(quads) - 1) : ~Contains(At(quads, h), c)

\* the corner number of point p on quadrant q, or -1
CornerOf(q, p) ==
  IF p[1] \in {q.x, q.x + q.len} /\ p[2] \in {q.y, q.y + q.len}
    THEN (IF p[1] = q.x THEN 0 ELSE 1) + 2 * (IF p[2] = q.y THEN 0 ELSE 1)
    ELSE -1

\* point p lies inside a face of quadrant q: p is a hanging corner
OnOpenFace(q, p) ==
  \/ p[1] \in {q.x, q.x + q.len} /\ q.y < p[2] /\ p[2] < q.y + q.len
  \/ p[2] \in {q.y, q.y + q.len} /\ q.x < p[1] /\ p[1] < q.x + q.len

\* two quadrants touch along a face or at a corner
Touch(a, b) ==
  /\ a.x <= b.x + b.len /\ b.x <= a.x + a.len
  /\ a.y <= b.y + b.len /\ b.y <= a.y + a.len

(***************************************************************************)
(* The partition and the ghost layer.  gfq is global_first_quadrant: rank  *)
(* r holds the leaves gfq[r] .. gfq[r + 1] - 1.  The ghost layer of a rank *)
(* lists, in Morton order, the remote leaves touching its own leaves,      *)
(* each with its owner rank and its number on that rank (piggy3).          *)
(***************************************************************************)
IsLocal(gfq, r, g) == At(gfq, r) <= g /\ g < At(gfq, r + 1)

RankOf(gfq, g) == CHOOSE r \in Ranks : IsLocal(gfq, r, g)

NumLocal(gfq, r) == At(gfq, r + 1) - At(gfq, r)

GhostLayer(quads, gfq, r) ==
  LET gs == {h \in 0 .. (Len(quads) - 1) :
               /\ ~IsLocal(gfq, r, h)
               /\ \E g \in 0 .. (Len(quads) - 1) :
                    IsLocal(gfq, r, g) /\ Touch(At(quads, g), At(quads, h))}
      ss == SortedSeq(gs)
  IN [i \in 1 .. Len(ss) |->
        [global |-> ss[i],
         rank |-> RankOf(gfq, ss[i]),
         local_num |-> ss[i] - At(gfq, RankOf(gfq, ss[i]))]]

\* the index of leaf g in a ghost layer, -1 without a ghost layer
GhostId(ghosts, with_ghost, g) ==
  IF with_ghost
    THEN (CHOOSE i \in 1 .. Len(ghosts) : ghosts[i].global = g) - 1
    ELSE -1

(***************************************************************************)
(* The topology iterator (p4est_iterate): the events it delivers to rank   *)
(* r, each once: the volume of every local leaf, then every face           *)
(* connection and every non-hanging corner that has a local side.          *)
(***************************************************************************)
OppositeFace(f) == f + 1 - 2 * (f % 2)

\* the face connections of the forest, sides by global leaf numbers
FaceConnection(quads, g, f) ==
  LET q == At(quads, g)
      nb == FaceNeighbors(quads, g, f)
      ns == SortedSeq(nb)
      big == [is_hanging |-> FALSE, face |-> f, g |-> << g >>]
  IN IF IsBoundaryFace(quads, g, f) THEN << << big >> >>
     ELSE IF Cardinality(nb) = 1 /\ At(quads, ns[1]).len = q.len
       THEN IF f % 2 = 1
              THEN << << big, [is_hanging |-> FALSE, face |-> OppositeFace(f),
                               g |-> ns] >> >>
              ELSE << >>
     ELSE IF Cardinality(nb) = 2
       THEN LET small == [is_hanging |-> TRUE, face |-> OppositeFace(f),
                          g |-> ns]
            IN IF f % 2 = 1 THEN << << big, small >> >>
               ELSE << << small, big >> >>
     ELSE << >>

FaceConnections(quads) ==
  Flatten([k \in 1 .. Len(quads) |->
             Flatten([f \in 1 .. 4 |-> FaceConnection(quads, k - 1, f - 1)])])

\* the corner connections of the forest: no event at a hanging corner
CornerConnection(quads, p) ==
  LET S == {g \in 0 .. (Len(quads) - 1) : CornerOf(At(quads, g), p) >= 0}
      ss == SortedSeq(S)
  IN IF S = {} \/ \E g \in 0 .. (Len(quads) - 1) : OnOpenFace(At(quads, g), p)
       THEN << >>
       ELSE << [i \in 1 .. Len(ss) |->
                  [corner |-> CornerOf(At(quads, ss[i]), p), g |-> ss[i]]] >>

CornerConnections(quads) ==
  Flatten([py \in 1 .. (RootQuad.len + 1) |->
             Flatten([px \in 1 .. (DomainWidth + 1) |->
                        CornerConnection(quads, << px - 1, py - 1 >>)])])

VolumeInfo(quads, gfq, r, le) ==
  LET q == At(quads, At(gfq, r) + le)
  IN [type |-> "volume", quadid |-> le, level |-> q.level,
      childid |-> p4est_quadrant_child_id(q)]

FaceSide(quads, gfq, ghosts, with_ghost, r, side) ==
  LET id(g) == IF IsLocal(gfq, r, g) THEN g - At(gfq, r)
               ELSE GhostId(ghosts, with_ghost, g)
  IN IF side.is_hanging
       THEN [is_hanging |-> TRUE, face |-> side.face,
             is_ghost |-> [j \in 1 .. 2 |-> ~IsLocal(gfq, r, side.g[j])],
             quadid |-> [j \in 1 .. 2 |-> id(side.g[j])],
             childid |-> [j \in 1 .. 2 |->
                            p4est_quadrant_child_id(At(quads, side.g[j]))]]
       ELSE [is_hanging |-> FALSE, face |-> side.face,
             is_ghost |-> ~IsLocal(gfq, r, side.g[1]),
             quadid |-> id(side.g[1]),
             level |-> At(quads, side.g[1]).level]

FaceInfo(quads, gfq, ghosts, with_ghost, r, sides) ==
  [type |-> "face", orientation |-> 0,
   sides |-> [i \in 1 .. Len(sides) |->
                FaceSide(quads, gfq, ghosts, with_ghost, r, sides[i])]]

CornerInfo(gfq, ghosts, with_ghost, r, sides) ==
  [type |-> "corner",
   sides |-> [i \in 1 .. Len(sides) |->
                [corner |-> sides[i].corner,
                 is_ghost |-> ~IsLocal(gfq, r, sides[i].g),
                 quadid |-> IF IsLocal(gfq, r, sides[i].g)
                              THEN sides[i].g - At(gfq, r)
                              ELSE GhostId(ghosts, with_ghost, sides[i].g)]]]

p4est_iterate(quads, gfq, ghosts, with_ghost, r) ==
  LET faceLocal(sides) ==
        \E i \in 1 .. Len(sides) : \E j \in 1 .. Len(sides[i].g) :
          IsLocal(gfq, r, sides[i].g[j])
      cornerLocal(sides) ==
        \E i \in 1 .. Len(sides) : IsLocal(gfq, r, sides[i].g)
      fcs == SelectSeq(FaceConnections(quads), faceLocal)
      ccs == SelectSeq(CornerConnections(quads), cornerLocal)
  IN [le \in 1 .. NumLocal(gfq, r) |-> VolumeInfo(quads, gfq, r, le - 1)]
       \o [i \in 1 .. Len(fcs) |->
             FaceInfo(quads, gfq, ghosts, with_ghost, r, fcs[i])]
       \o [i \in 1 .. Len(ccs) |->
             CornerInfo(gfq, ghosts, with_ghost, r, ccs[i])]


(***************************************************************************)
(* Bit arithmetic on the 8-bit codes (configuration, face_code).           *)
(***************************************************************************)
P4EST_DIM == 2
P4EST_HALF == 2

Bit(v, b) == (v \div (2 ^ b)) % 2
SetBit(v, b) == v + (1 - Bit(v, b)) * (2 ^ b)
ClearBit(v, b) == v - Bit(v, b) * (2 ^ b)
BitOr(a, b) ==
  SumSeq([i \in 1 .. 8 |->
            IF Bit(a, i - 1) = 1 \/ Bit(b, i - 1) = 1 THEN 2 ^ (i - 1) ELSE 0])
BitXor1(j, k) == (j + k) % 2

(***************************************************************************)
(* The registry of candidate nodes (tnodes_cnode_t, tnodes_contr_t).  The  *)
(* owner pointer of a candidate is the index of a contributor, -1 if NULL. *)
(* The operators below take the state m of one rank (tnodes_meta_t and     *)
(* the p4est_lnodes_t under construction) and return the state after the   *)
(* call.                                                                   *)
(***************************************************************************)
tree_quad_to_le(quadid) == 0 + quadid

\* no rescan after a push: the owner stays the first contributor
OwnerScan_first(contr, zz, owner) == owner

\* a rescan that hands the node to the contributor just pushed
OwnerScan_pushed(contr, zz, owner) == Len(contr) - 1

\* the rescan after a push: the first contributor of least rank among all
\* but the one just pushed
RECURSIVE OwnerScan(_, _, _)
OwnerScan(contr, zz, owner) ==
  IF zz < Len(contr) - 1
    THEN OwnerScan(contr, zz + 1,
                   IF At(contr, zz).rank < At(contr, owner).rank
                     THEN zz ELSE owner)
    ELSE owner

\* an update that leaves the owner with the contributor that has it
cnode_add_owner_kept(cnode, rank, le, nodene) ==
  LET found == {zz \in 0 .. (Len(cnode.contr) - 1) :
                  At(cnode.contr, zz).rank = rank}
  IN IF found # {}
       THEN LET zz == MinOf(found)
                contr == At(cnode.contr, zz)
            IN IF le < contr.le \/ (le = contr.le /\ nodene < contr.nodene)
                 THEN [cnode EXCEPT
                         !.contr = Upd(@, zz, [contr EXCEPT !.nodene = nodene,
                                                            !.le = le])]
                 ELSE cnode
       ELSE LET pushed == Append(cnode.contr,
                                 [nodene |-> nodene, rank |-> rank, le |-> le])
            IN IF cnode.owner = -1
                 THEN [cnode EXCEPT !.contr = pushed,
                                    !.owner = Len(pushed) - 1]
                 ELSE [cnode EXCEPT !.contr = pushed]

\* an update that keeps the pair registered last for a rank
cnode_add_latest(cnode, rank, le, nodene) ==
  LET found == {zz \in 0 .. (Len(cnode.contr) - 1) :
                  At(cnode.contr, zz).rank = rank}
  IN IF found # {}
       THEN LET zz == MinOf(found)
                contr == At(cnode.contr, zz)
            IN [cnode EXCEPT
                  !.contr = Upd(@, zz, [contr EXCEPT !.nodene = nodene,
                                                     !.le = le])]
       ELSE LET owner_rank == IF cnode.owner = -1 THEN -1
                              ELSE At(cnode.contr, cnode.owner).rank
                pushed == Append(cnode.contr,
                                 [nodene |-> nodene, rank |-> rank, le |-> le])
            IN IF cnode.owner = -1 \/ rank <= owner_rank
                 THEN [cnode EXCEPT !.contr = pushed,
                                    !.owner = Len(pushed) - 1]
                 ELSE [cnode EXCEPT !.contr = pushed,
                                    !.owner = OwnerScan(pushed, 1, 0)]

\* node_register's update of one candidate: returns the candidate
cnode_add(cnode, rank, le, nodene) ==
  LET found == {zz \in 0 .. (Len(cnode.contr) - 1) :
                  At(cnode.contr, zz).rank = rank}
  IN IF found # {}
       THEN LET zz == MinOf(found)
                contr == At(cnode.contr, zz)
            IN IF le < contr.le \/ (le = contr.le /\ nodene < contr.nodene)
                 THEN [cnode EXCEPT
                         !.contr = Upd(@, zz, [contr EXCEPT !.nodene = nodene,
                                                            !.le = le])]
                 ELSE cnode
       ELSE LET owner_rank == IF cnode.owner = -1 THEN -1
                              ELSE At(cnode.contr, cnode.owner).rank
                pushed == Append(cnode.contr,
                                 [nodene |-> nodene, rank |-> rank, le |-> le])
            IN IF cnode.owner = -1 \/ rank <= owner_rank
                 THEN [cnode EXCEPT !.contr = pushed,
                                    !.owner = Len(pushed) - 1]
                 ELSE [cnode EXCEPT !.contr = pushed,
                                    !.owner = OwnerScan(pushed, 1, 0)]

\* st is [m, lni, lnh]: the rank's state and the node numbers a callback
\* carries; v names the one passed by reference ("new" for NULL)
VarGet(st, v) ==
  CASE v = "lni" -> st.lni
    [] v = "lnh0" -> st.lnh[1]
    [] v = "lnh1" -> st.lnh[2]
    [] OTHER -> -1

VarSet(st, v, lni) ==
  CASE v = "lni" -> [st EXCEPT !.lni = lni]
    [] v = "lnh0" -> [st EXCEPT !.lnh[1] = lni]
    [] v = "lnh1" -> [st EXCEPT !.lnh[2] = lni]
    [] OTHER -> st

node_register(st, v, rank0, le, nodene, bcon) ==
  LET m == st.m
      rank == IF rank0 = -1 THEN m.mpirank ELSE rank0
      isnew == VarGet(st, v) = -1
      lni == IF isnew THEN Len(m.construct) ELSE VarGet(st, v)
      cnode == IF isnew
                 THEN [runid |-> lni, bcon |-> bcon, owner |-> -1,
                       contr |-> << >>]
                 ELSE At(m.construct, lni)
      added == cnode_add(cnode, rank, le, nodene)
      m1 == [m EXCEPT
               !.construct = IF isnew THEN Append(@, added)
                             ELSE Upd(@, lni, added),
               !.element_nodes = IF rank = m.mpirank
                                   THEN Upd(@, le * m.vnodes + nodene, lni)
                                   ELSE @]
  IN VarSet([st EXCEPT !.m = m1], v, lni)

node_lregister(st, v, le, nodene, bcon) ==
  node_register(st, v, -1, le, nodene, bcon)

\* a promotion that leaves the center a face node
node_lfacetocorner_keep(st, le, nodene) == st

\* a promotion that registers the center anew
node_lfacetocorner_register(st, le, nodene) ==
  node_lregister(st, "new", le, nodene, P4EST_CONNECT_CORNER)

node_lfacetocorner(st, le, nodene) ==
  LET lni == At(st.m.element_nodes, le * st.m.vnodes + nodene)
  IN [st EXCEPT !.m.construct =
        Upd(@, lni, [At(@, lni) EXCEPT !.bcon = P4EST_CONNECT_CORNER])]

\* a registration that, without a ghost layer, enters the remote side
\* under the next rank
node_gregister_unguarded(st, v, ghostid, nodene, bcon) ==
  IF st.m.ghost
    THEN node_register(st, v, At(st.m.ghost_rank, ghostid),
                       At(st.m.ghosts, ghostid).local_num, nodene, bcon)
    ELSE node_register(st, v, (st.m.mpirank + 1) % st.m.mpisize, 0, nodene,
                       bcon)

node_gregister(st, v, ghostid, nodene, bcon) ==
  IF st.m.ghost
    THEN node_register(st, v, At(st.m.ghost_rank, ghostid),
                       At(st.m.ghosts, ghostid).local_num, nodene, bcon)
    ELSE st

\* a run of node_lregister calls that each create a node (lni == NULL)
RECURSIVE RegisterNew(_, _, _, _)
RegisterNew(st, le, nodes, bcon) ==
  IF nodes = << >> THEN st
  ELSE RegisterNew(node_lregister(st, "new", le, Head(nodes), bcon),
                   le, Tail(nodes), bcon)

(***************************************************************************)
(* The three callbacks of the traversal.                                   *)
(***************************************************************************)
\* a volume callback that takes the full style from the argument alone
iter_volume1_style_only(m, vi) ==
  LET le == m.lenum
      m1 == [m EXCEPT !.lenum = @ + 1,
                      !.chilev = Upd(@, le, vi.level * 8 + vi.childid)]
      st == [m |-> m1, lni |-> -1, lnh |-> << -1, -1 >>]
  IN IF m.full_style
       THEN LET s1 == [st EXCEPT !.m.configuration = Upd(@, le, 2 ^ 5)]
                s2 == node_lregister(s1, "new", le, n_center,
                                     P4EST_CONNECT_CORNER)
            IN (IF m.with_faces
                  THEN RegisterNew(s2, le, n_cface, P4EST_CONNECT_FACE)
                  ELSE s2).m
       ELSE LET s1 == IF vi.childid = 1 \/ vi.childid = 2
                        THEN [st EXCEPT !.m.configuration = Upd(@, le, 2 ^ 4)]
                        ELSE st
            IN (IF m.with_faces
                  THEN node_lregister(s1, "new", le, n_center,
                                      P4EST_CONNECT_FACE)
                  ELSE s1).m

\* a volume callback that registers the center of a full split as a face
\* node
iter_volume1_face_center(m, vi) ==
  LET le == m.lenum
      m1 == [m EXCEPT !.lenum = @ + 1,
                      !.chilev = Upd(@, le, vi.level * 8 + vi.childid)]
      st == [m |-> m1, lni |-> -1, lnh |-> << -1, -1 >>]
  IN IF m.full_style \/ vi.level = 0
       THEN LET s1 == [st EXCEPT !.m.configuration = Upd(@, le, 2 ^ 5)]
                s2 == node_lregister(s1, "new", le, n_center,
                                     P4EST_CONNECT_FACE)
            IN (IF m.with_faces
                  THEN RegisterNew(s2, le, n_cface, P4EST_CONNECT_FACE)
                  ELSE s2).m
       ELSE LET s1 == IF vi.childid = 1 \/ vi.childid = 2
                        THEN [st EXCEPT !.m.configuration = Upd(@, le, 2 ^ 4)]
                        ELSE st
            IN (IF m.with_faces
                  THEN node_lregister(s1, "new", le, n_center,
                                      P4EST_CONNECT_FACE)
                  ELSE s1).m

\* a volume callback that registers the center for every leaf
iter_volume1_center(m, vi) ==
  LET le == m.lenum
      m1 == [m EXCEPT !.lenum = @ + 1,
                      !.chilev = Upd(@, le, vi.level * 8 + vi.childid)]
      st == [m |-> m1, lni |-> -1, lnh |-> << -1, -1 >>]
  IN IF m.full_style \/ vi.level = 0
       THEN LET s1 == [st EXCEPT !.m.configuration = Upd(@, le, 2 ^ 5)]
                s2 == node_lregister(s1, "new", le, n_center,
                                     P4EST_CONNECT_CORNER)
            IN (IF m.with_faces
                  THEN RegisterNew(s2, le, n_cface, P4EST_CONNECT_FACE)
                  ELSE s2).m
       ELSE LET s1 == IF vi.childid = 1 \/ vi.childid = 2
                        THEN [st EXCEPT !.m.configuration = Upd(@, le, 2 ^ 4)]
                        ELSE st
            IN node_lregister(s1, "new", le, n_center, P4EST_CONNECT_FACE).m

iter_volume1(m, vi) ==
  LET le == m.lenum
      m1 == [m EXCEPT !.lenum = @ + 1,
                      !.chilev = Upd(@, le, vi.level * 8 + vi.childid)]
      st == [m |-> m1, lni |-> -1, lnh |-> << -1, -1 >>]
  IN IF m.full_style \/ vi.level = 0
       THEN LET s1 == [st EXCEPT !.m.configuration = Upd(@, le, 2 ^ 5)]
                s2 == node_lregister(s1, "new", le, n_center,
                                     P4EST_CONNECT_CORNER)
            IN (IF m.with_faces
                  THEN RegisterNew(s2, le, n_cface, P4EST_CONNECT_FACE)
                  ELSE s2).m
       ELSE LET s1 == IF vi.childid = 1 \/ vi.childid = 2
                        THEN [st EXCEPT !.m.configuration = Upd(@, le, 2 ^ 4)]
                        ELSE st
            IN (IF m.with_faces
                  THEN node_lregister(s1, "new", le, n_center,
                                      P4EST_CONNECT_FACE)
                  ELSE s1).m

\* the hanging face mid that half j of a face uses (lnh[j ^ swapi])
LnhVar(j, swapi) == IF BitXor1(j, swapi) = 0 THEN "lnh0" ELSE "lnh1"

\* the face bit set, the bits of the unsplit patterns left in place
config_split_keep(configuration, face) == SetBit(configuration, face)

\* configuration[le] &= ~((1 << 4) | (1 << 5)); configuration[le] |= 1 << face
config_split(configuration, face) ==
  SetBit(ClearBit(ClearBit(configuration, 4), 5), face)

\* iter_face1, the full (large) side i of a nonconforming face
face_full_side(st, fs, swapi) ==
  LET face == fs.face
      nodene == At(n_mface, face)
  IN IF ~fs.is_ghost
       THEN LET le == tree_quad_to_le(fs.quadid)
                s1 == IF ClearBit(At(st.m.configuration, le), 4) = 0
                        THEN IF ~st.m.with_faces
                               THEN node_lregister(st, "new", le, n_center,
                                                   P4EST_CONNECT_CORNER)
                               ELSE RegisterNew(
                                      node_lfacetocorner(st, le, n_center),
                                      le, n_cface, P4EST_CONNECT_FACE)
                        ELSE st
                s2 == [s1 EXCEPT !.m.configuration =
                         Upd(@, le, config_split(At(@, le), face))]
                s3 == node_lregister(s2, "lni", le, nodene,
                                     P4EST_CONNECT_CORNER)
            IN IF st.m.with_faces
                 THEN LET s4 == node_lregister(s3, "new", le,
                                               At(n_split, face),
                                               P4EST_CONNECT_FACE)
                          s5 == node_lregister(s4, LnhVar(0, swapi), le,
                                               At(At(n_hface, face), 0),
                                               P4EST_CONNECT_FACE)
                      IN node_lregister(s5, LnhVar(1, swapi), le,
                                        At(At(n_hface, face), 1),
                                        P4EST_CONNECT_FACE)
                 ELSE s3
       ELSE LET s1 == node_gregister(st, "lni", fs.quadid, nodene,
                                     P4EST_CONNECT_CORNER)
            IN IF st.m.with_faces
                 THEN LET s2 == node_gregister(s1, LnhVar(0, swapi), fs.quadid,
                                               At(At(n_hface, face), 0),
                                               P4EST_CONNECT_FACE)
                      IN node_gregister(s2, LnhVar(1, swapi), fs.quadid,
                                        At(At(n_hface, face), 1),
                                        P4EST_CONNECT_FACE)
                 ELSE s1

\* a small side that stores its face code instead of adding to it
face_hanging_half_store(st, fs, j, swapi) ==
  LET face == fs.face
      nodene == At(n_ccorn, At(At(p4est_face_corners, face),
                               BitXor1(j, P4EST_HALF - 1)))
  IN IF ~At(fs.is_ghost, j)
       THEN LET le == tree_quad_to_le(At(fs.quadid, j))
                s1 == node_lregister(st, "lni", le, nodene,
                                     P4EST_CONNECT_CORNER)
                s2 == IF st.m.with_faces
                        THEN node_lregister(s1, LnhVar(j, swapi), le,
                                            At(n_mface, face),
                                            P4EST_CONNECT_FACE)
                        ELSE s1
                childid == At(fs.childid, j)
            IN [s2 EXCEPT !.m.face_code =
                  Upd(@, le,
                      BitOr(2 ^ (P4EST_DIM + (face \div 2)), childid))]
       ELSE LET s1 == node_gregister(st, "lni", At(fs.quadid, j), nodene,
                                     P4EST_CONNECT_CORNER)
            IN IF st.m.with_faces
                 THEN node_gregister(s1, LnhVar(j, swapi), At(fs.quadid, j),
                                     At(n_mface, face), P4EST_CONNECT_FACE)
                 ELSE s1

\* a small side that records the hanging axis without the child id
face_hanging_half_no_childid(st, fs, j, swapi) ==
  LET face == fs.face
      nodene == At(n_ccorn, At(At(p4est_face_corners, face),
                               BitXor1(j, P4EST_HALF - 1)))
  IN IF ~At(fs.is_ghost, j)
       THEN LET le == tree_quad_to_le(At(fs.quadid, j))
                s1 == node_lregister(st, "lni", le, nodene,
                                     P4EST_CONNECT_CORNER)
                s2 == IF st.m.with_faces
                        THEN node_lregister(s1, LnhVar(j, swapi), le,
                                            At(n_mface, face),
                                            P4EST_CONNECT_FACE)
                        ELSE s1
            IN [s2 EXCEPT !.m.face_code =
                  Upd(@, le,
                      BitOr(At(@, le), 2 ^ (P4EST_DIM + (face \div 2))))]
       ELSE LET s1 == node_gregister(st, "lni", At(fs.quadid, j), nodene,
                                     P4EST_CONNECT_CORNER)
            IN IF st.m.with_faces
                 THEN node_gregister(s1, LnhVar(j, swapi), At(fs.quadid, j),
                                     At(n_mface, face), P4EST_CONNECT_FACE)
                 ELSE s1

\* iter_face1, half j of the hanging (small) side of a nonconforming face
face_hanging_half(st, fs, j, swapi) ==
  LET face == fs.face
      nodene == At(n_ccorn, At(At(p4est_face_corners, face),
                               BitXor1(j, P4EST_HALF - 1)))
  IN IF ~At(fs.is_ghost, j)
       THEN LET le == tree_quad_to_le(At(fs.quadid, j))
                s1 == node_lregister(st, "lni", le, nodene,
                                     P4EST_CONNECT_CORNER)
                s2 == IF st.m.with_faces
                        THEN node_lregister(s1, LnhVar(j, swapi), le,
                                            At(n_mface, face),
                                            P4EST_CONNECT_FACE)
                        ELSE s1
                childid == At(fs.childid, j)
            IN [s2 EXCEPT !.m.face_code =
                  Upd(@, le,
                      BitOr(At(@, le),
                            BitOr(2 ^ (P4EST_DIM + (face \div 2)), childid)))]
       ELSE LET s1 == node_gregister(st, "lni", At(fs.quadid, j), nodene,
                                     P4EST_CONNECT_CORNER)
            IN IF st.m.with_faces
                 THEN node_gregister(s1, LnhVar(j, swapi), At(fs.quadid, j),
                                     At(n_mface, face), P4EST_CONNECT_FACE)
                 ELSE s1

face_side(st, fs, i, orientation) ==
  LET swapi == IF i = 0 \/ orientation = 0 THEN 0 ELSE 1
  IN IF ~fs.is_hanging
       THEN face_full_side(st, fs, swapi)
       ELSE face_hanging_half(face_hanging_half(st, fs, 0, swapi),
                              fs, 1, swapi)

\* iter_face1, one side of a same-size face connection
face_same_side(st, fs) ==
  IF ~fs.is_ghost
    THEN node_lregister(st, "lni", tree_quad_to_le(fs.quadid),
                        At(n_mface, fs.face), P4EST_CONNECT_FACE)
    ELSE node_gregister(st, "lni", fs.quadid, At(n_mface, fs.face),
                        P4EST_CONNECT_FACE)

iter_face1(m, fi) ==
  LET st == [m |-> m, lni |-> -1, lnh |-> << -1, -1 >>]
      fss == fi.sides
  IN IF Len(fss) = 1
       THEN IF m.with_faces
              THEN node_lregister(st, "new", tree_quad_to_le(fss[1].quadid),
                                  At(n_mface, fss[1].face),
                                  P4EST_CONNECT_FACE).m
              ELSE m
     ELSE IF ~fss[1].is_hanging /\ ~fss[2].is_hanging
       THEN IF m.with_faces
              THEN face_same_side(face_same_side(st, fss[1]), fss[2]).m
              ELSE m
     ELSE face_side(face_side(st, fss[1], 0, fi.orientation),
                    fss[2], 1, fi.orientation).m

RECURSIVE corner_sides(_, _)
corner_sides(st, sides) ==
  IF sides = << >> THEN st
  ELSE LET cs == Head(sides)
           nodene == At(n_ccorn, cs.corner)
       IN corner_sides(
            IF ~cs.is_ghost
              THEN node_lregister(st, "lni", tree_quad_to_le(cs.quadid),
                                  nodene, P4EST_CONNECT_CORNER)
              ELSE node_gregister(st, "lni", cs.quadid, nodene,
                                  P4EST_CONNECT_CORNER),
            Tail(sides))

iter_corner1(m, ci) ==
  corner_sides([m |-> m, lni |-> -1, lnh |-> << -1, -1 >>], ci.sides).m


(***************************************************************************)
(* Peers (tnodes_peer_t).  proc_peer[q] is 0 or one more than the index of *)
(* the peer of rank q; a pointer to a peer is its index in m.peers.        *)
(***************************************************************************)
peer_access(m, q) ==
  IF At(m.proc_peer, q) = 0
    THEN [m EXCEPT
            !.peers = Append(@, [rank |-> q, done |-> 0, sharind |-> -1,
                                 lastadd |-> -1, bufcount |-> 0,
                                 passive |-> 0, shacumul |-> -1,
                                 sharedno |-> << >>, querypos |-> << >>,
                                 remosort |-> << >>]),
            !.proc_peer = Upd(@, q, Len(m.peers) + 1)]
    ELSE m

\* the index of the peer of rank q, once peer_access has run for q
PeerOf(m, q) == At(m.proc_peer, q) - 1

\* a reply entry that is noted in lastadd and not counted
peer_add_reply_uncounted(m, pi, lni) ==
  [m EXCEPT !.peers = Upd(@, pi, [At(@, pi) EXCEPT !.lastadd = lni])]

peer_add_reply(m, pi, lni) ==
  [m EXCEPT !.peers = Upd(@, pi, [At(@, pi) EXCEPT !.bufcount = @ + 1,
                                                   !.lastadd = lni])]

\* a query that puts the position in front of querypos and the candidate
\* at the end of sharedno
peer_add_query_front(m, pi, lni, epos) ==
  [m EXCEPT !.peers =
     Upd(@, pi, [At(@, pi) EXCEPT !.bufcount = @ + 1,
                                  !.querypos = << epos >> \o @,
                                  !.sharedno = Append(@, lni),
                                  !.lastadd = lni])]

peer_add_query(m, pi, lni, epos) ==
  [m EXCEPT !.peers =
     Upd(@, pi, [At(@, pi) EXCEPT !.bufcount = @ + 1,
                                  !.querypos = Append(@, epos),
                                  !.sharedno = Append(@, lni),
                                  !.lastadd = lni])]

(***************************************************************************)
(* owned_query_reply: the election.  Each candidate is counted as owned,   *)
(* as shared-in (with a query to its owner) or dropped.                    *)
(***************************************************************************)
OwnerOf(cnode) == At(cnode.contr, cnode.owner)

\* post replies for all queries to self
RECURSIVE owned_replies(_, _, _)
owned_replies(m, cnode, zc) ==
  IF zc >= Len(cnode.contr) THEN m
  ELSE LET contr == At(cnode.contr, zc)
       IN IF contr.rank # m.mpirank
            THEN LET m1 == peer_access(m, contr.rank)
                 IN owned_replies(
                      peer_add_reply(m1, PeerOf(m1, contr.rank), cnode.runid),
                      cnode, zc + 1)
            ELSE owned_replies(m, cnode, zc + 1)

\* check for passively shared nodes
RECURSIVE passive_shares(_, _, _)
passive_shares(m, cnode, zc) ==
  IF zc >= Len(cnode.contr) THEN m
  ELSE LET contr == At(cnode.contr, zc)
       IN IF contr.rank # m.mpirank /\ contr.rank # OwnerOf(cnode).rank
            THEN LET m1 == peer_access(m, contr.rank)
                     pi == PeerOf(m1, contr.rank)
                 IN passive_shares(
                      [m1 EXCEPT !.peers =
                         Upd(@, pi, [At(@, pi) EXCEPT !.passive = @ + 1])],
                      cnode, zc + 1)
            ELSE passive_shares(m, cnode, zc + 1)

SetRunid(m, lni, runid) ==
  [m EXCEPT !.construct = Upd(@, lni, [At(@, lni) EXCEPT !.runid = runid])]

\* an election that does not weed out the remote-only nodes
owned_query_reply_node_all(m, zz) ==
  LET cnode == At(m.construct, zz)
      owner == OwnerOf(cnode)
  IN IF owner.rank = m.mpirank
       THEN LET m1 == owned_replies(
                        [m EXCEPT !.ownsort = Append(@, zz),
                                  !.num_owned = @ + 1],
                        cnode, 0)
                m2 == IF Len(cnode.contr) > 1
                        THEN [m1 EXCEPT !.num_owned_shared = @ + 1]
                        ELSE m1
            IN SetRunid(m2, zz, -1)
     ELSE LET m1 == passive_shares(m, cnode, 0)
              m2 == peer_access(m1, owner.rank)
              pi == PeerOf(m2, owner.rank)
              m3 == peer_add_query(m2, pi, cnode.runid,
                                   owner.le * m.vnodes + owner.nodene)
              m4 == [m3 EXCEPT
                       !.peers = Upd(@, pi, [At(@, pi) EXCEPT
                                               !.remosort = Append(@, zz)]),
                       !.num_shared = @ + 1]
          IN SetRunid(m4, zz, -1)

owned_query_reply_node(m, zz) ==
  LET cnode == At(m.construct, zz)
      owner == OwnerOf(cnode)
      withloc == \E zc \in 0 .. (Len(cnode.contr) - 1) :
                   At(cnode.contr, zc).rank = m.mpirank
  IN IF owner.rank = m.mpirank
       THEN LET m1 == owned_replies(
                        [m EXCEPT !.ownsort = Append(@, zz),
                                  !.num_owned = @ + 1],
                        cnode, 0)
                m2 == IF Len(cnode.contr) > 1
                        THEN [m1 EXCEPT !.num_owned_shared = @ + 1]
                        ELSE m1
            IN SetRunid(m2, zz, -1)
     ELSE IF ~withloc
       THEN SetRunid(m, zz, -1)
     ELSE LET m1 == passive_shares(m, cnode, 0)
              m2 == peer_access(m1, owner.rank)
              pi == PeerOf(m2, owner.rank)
              m3 == peer_add_query(m2, pi, cnode.runid,
                                   owner.le * m.vnodes + owner.nodene)
              m4 == [m3 EXCEPT
                       !.peers = Upd(@, pi, [At(@, pi) EXCEPT
                                               !.remosort = Append(@, zz)]),
                       !.num_shared = @ + 1]
          IN SetRunid(m4, zz, -1)

RECURSIVE owned_query_reply_loop(_, _)
owned_query_reply_loop(m, zz) ==
  IF zz >= Len(m.construct) THEN m
  ELSE owned_query_reply_loop(owned_query_reply_node(m, zz), zz + 1)

owned_query_reply(m) ==
  LET m1 == owned_query_reply_loop(m, 0)
  IN [m1 EXCEPT !.num_all_shared = m1.num_owned_shared + m1.num_shared]

(***************************************************************************)
(* sort_allgather: the local sort of the owned nodes, the all-gather of    *)
(* the owned counts and the scan to global offsets.                        *)
(***************************************************************************)
\* a comparison by the element of the owner alone
cnode_compare_element(cc1, cc2) ==
  LET o1 == OwnerOf(cc1)
      o2 == OwnerOf(cc2)
      ldiff == o1.le - o2.le
  IN IF ldiff = 0 THEN 0 ELSE IF ldiff < 0 THEN -1 ELSE 1

cnode_compare(cc1, cc2) ==
  LET o1 == OwnerOf(cc1)
      o2 == OwnerOf(cc2)
      ldiff == o1.le - o2.le
  IN IF o1.le = o2.le THEN o1.nodene - o2.nodene
     ELSE IF ldiff = 0 THEN 0 ELSE IF ldiff < 0 THEN -1 ELSE 1

\* a comparison by runid in the opposite direction
rnode_compare_reversed(cc1, cc2) ==
  LET ldiff == cc2.runid - cc1.runid
  IN IF ldiff = 0 THEN 0 ELSE IF ldiff < 0 THEN -1 ELSE 1

\* nodes of one peer are sorted according to their runid member
rnode_compare(cc1, cc2) ==
  LET ldiff == cc1.runid - cc2.runid
  IN IF ldiff = 0 THEN 0 ELSE IF ldiff < 0 THEN -1 ELSE 1

\* sc_array_sort of an array of candidate pointers; cmp names the
\* comparison function
Compare(cmp, cc1, cc2) ==
  IF cmp = "cnode_compare" THEN cnode_compare(cc1, cc2)
  ELSE rnode_compare(cc1, cc2)

RECURSIVE InsertSorted(_, _, _, _)
InsertSorted(construct, sorted, lni, cmp) ==
  IF sorted = << >> THEN << lni >>
  ELSE IF Compare(cmp, At(construct, lni), At(construct, Head(sorted))) < 0
    THEN << lni >> \o sorted
    ELSE << Head(sorted) >> \o InsertSorted(construct, Tail(sorted), lni, cmp)

RECURSIVE sc_array_sort(_, _, _)
sc_array_sort(construct, array, cmp) ==
  IF array = << >> THEN << >>
  ELSE InsertSorted(construct,
                    sc_array_sort(construct, Tail(array), cmp),
                    Head(array), cmp)

RECURSIVE SetRunids(_, _, _)
SetRunids(construct, ownsort, zz) ==
  IF zz >= Len(ownsort) THEN construct
  ELSE SetRunids(Upd(construct, At(ownsort, zz),
                     [At(construct, At(ownsort, zz)) EXCEPT !.runid = zz]),
                 ownsort, zz + 1)

\* up to the call of sc_MPI_Allgather, which sends ln->owned_count
sort_allgather_sort(m) ==
  LET sorted == sc_array_sort(m.construct, m.ownsort, "cnode_compare")
  IN [m EXCEPT !.ownsort = sorted,
               !.construct = SetRunids(@, sorted, 0),
               !.owned_count = m.num_owned,
               !.num_local_nodes = m.num_owned + m.num_shared,
               !.nonlocal_nodes = Fill(m.num_shared, -1)]

\* a scan that stores the counts themselves instead of their running sum
RECURSIVE goffset_scan_counts(_, _, _)
goffset_scan_counts(goffset, global_owned_count, q) ==
  IF q >= Len(global_owned_count) THEN goffset
  ELSE goffset_scan_counts(Append(goffset, At(global_owned_count, q)),
                           global_owned_count, q + 1)

RECURSIVE goffset_scan(_, _, _)
goffset_scan(goffset, global_owned_count, q) ==
  IF q >= Len(global_owned_count) THEN goffset
  ELSE goffset_scan(Append(goffset, At(goffset, q) + At(global_owned_count, q)),
                    global_owned_count, q + 1)

\* a return from the all-gather that keeps the counts and computes no
\* offsets
sort_allgather_noscan(m, counts) ==
  [m EXCEPT !.global_owned_count = counts]

\* from the return of sc_MPI_Allgather with the counts of all ranks
sort_allgather_scan(m, counts) ==
  LET goffset == goffset_scan(<< 0 >>, counts, 0)
  IN [m EXCEPT !.global_owned_count = counts,
               !.goffset = goffset,
               !.global_offset = At(goffset, m.mpirank)]

(***************************************************************************)
(* sort_peers: peers in rank order, their cumulative offsets, and the      *)
(* empty sharer records.                                                   *)
(***************************************************************************)
peer_compare(p1, p2) == p1.rank - p2.rank

\* a sharer record that keeps the rank the memset has left
push_sharer_no_rank(sharers, rank) ==
  Append(sharers, [rank |-> -1, shared_nodes |-> << >>,
                   shared_mine_offset |-> -1, shared_mine_count |-> -1,
                   owned_offset |-> -1, owned_count |-> -1])

push_sharer(sharers, rank) ==
  Append(sharers, [rank |-> rank, shared_nodes |-> << >>,
                   shared_mine_offset |-> -1, shared_mine_count |-> -1,
                   owned_offset |-> -1, owned_count |-> -1])

\* offsets that do not add up the counts of the lower peers
RECURSIVE sort_peers_cumul_flat(_, _, _)
sort_peers_cumul_flat(m, i, nonlofs) ==
  IF i >= Len(m.sortp) THEN m
  ELSE LET pi == At(m.sortp, i)
           tp == At(m.peers, pi)
       IN sort_peers_cumul_flat(
            [m EXCEPT !.peers = Upd(@, pi, [tp EXCEPT !.shacumul = nonlofs])],
            i + 1, nonlofs)

RECURSIVE sort_peers_cumul(_, _, _)
sort_peers_cumul(m, i, nonlofs) ==
  IF i >= Len(m.sortp) THEN m
  ELSE LET pi == At(m.sortp, i)
           tp == At(m.peers, pi)
       IN sort_peers_cumul(
            [m EXCEPT !.peers = Upd(@, pi, [tp EXCEPT !.shacumul = nonlofs])],
            i + 1,
            IF tp.rank < m.mpirank THEN nonlofs + tp.bufcount ELSE nonlofs)

\* loops that push the local sharer after those of all the peers
RECURSIVE sort_peers_sharers_local_last(_, _, _)
sort_peers_sharers_local_last(m, i, localdone) ==
  IF i >= Len(m.sortp)
    THEN [m EXCEPT !.locsharer = Len(m.sharers),
                   !.sharers = push_sharer(@, m.mpirank)]
  ELSE LET pi == At(m.sortp, i)
           tp == At(m.peers, pi)
       IN sort_peers_sharers_local_last(
            [m EXCEPT
               !.peers = Upd(@, pi, [tp EXCEPT !.sharind = Len(m.sharers)]),
               !.sharers = push_sharer(@, tp.rank)],
            i + 1, localdone)

\* the two loops that push the sharers of the peers; the local sharer is
\* pushed when the first peer of higher rank, or the end, is reached
RECURSIVE sort_peers_sharers(_, _, _)
sort_peers_sharers(m, i, localdone) ==
  IF i >= Len(m.sortp)
    THEN IF localdone THEN m
         ELSE [m EXCEPT !.locsharer = Len(m.sharers),
                        !.sharers = push_sharer(@, m.mpirank)]
  ELSE LET pi == At(m.sortp, i)
           tp == At(m.peers, pi)
       IN IF ~localdone /\ tp.rank > m.mpirank
            THEN sort_peers_sharers(
                   [m EXCEPT !.locsharer = Len(m.sharers),
                             !.sharers = push_sharer(@, m.mpirank)],
                   i, TRUE)
            ELSE sort_peers_sharers(
                   [m EXCEPT
                      !.peers = Upd(@, pi, [tp EXCEPT
                                              !.sharind = Len(m.sharers)]),
                      !.sharers = push_sharer(@, tp.rank)],
                   i + 1, localdone)

\* sc_array_sort of the peer pointers by peer_compare
RECURSIVE InsertPeer(_, _, _)
InsertPeer(peers, sorted, pi) ==
  IF sorted = << >> THEN << pi >>
  ELSE IF peer_compare(At(peers, pi), At(peers, Head(sorted))) < 0
    THEN << pi >> \o sorted
    ELSE << Head(sorted) >> \o InsertPeer(peers, Tail(sorted), pi)

RECURSIVE SortPeerIndices(_, _)
SortPeerIndices(peers, array) ==
  IF array = << >> THEN << >>
  ELSE InsertPeer(peers, SortPeerIndices(peers, Tail(array)), Head(array))

sort_peers(m) ==
  LET num_peers == Len(m.peers)
  IN IF ~m.ghost \/ num_peers = 0 THEN m
     ELSE LET m1 == [m EXCEPT
                       !.sortp = SortPeerIndices(
                                   m.peers,
                                   [i \in 1 .. num_peers |-> i - 1])]
              m2 == sort_peers_cumul(m1, 0, 0)
          IN sort_peers_sharers(m2, 0, FALSE)


(***************************************************************************)
(* post_query_reply and wait_query_reply: the exchange.  A request is      *)
(* "null", "send" or "recv"; a message in flight is a record               *)
(* [src, dst, tag, data].  The operators return the state of the rank and  *)
(* the set of messages it has handed to the transport.                     *)
(***************************************************************************)
P4EST_COMM_TNODES_QUERY == "query"

\* one tag for both kinds of message
P4EST_COMM_TNODES_SAME == "query"

P4EST_COMM_TNODES_REPLY == "reply"

\* a send addressed to the sender's own rank
Message_to_self(src, dst, tag, data) ==
  [src |-> src, dst |-> src, tag |-> tag, data |-> data]

\* sc_MPI_Isend of a buffer to rank dst under a tag
Message(src, dst, tag, data) ==
  [src |-> src, dst |-> dst, tag |-> tag, data |-> data]

\* a loop that posts a request for every peer, the passive ones included
RECURSIVE post_query_reply_loop_all(_, _)
post_query_reply_loop_all(ms, iz) ==
  LET m == ms.m
  IN IF iz >= Len(m.peers) THEN ms
     ELSE LET peer == At(m.peers, iz)
          IN IF peer.rank > m.mpirank
               THEN post_query_reply_loop_all(
                      [ms EXCEPT
                         !.m.peers = Upd(@, iz,
                                         [peer EXCEPT
                                            !.querypos = Fill(peer.bufcount, -1),
                                            !.done = 1]),
                         !.m.pereq = Upd(@, iz, "recv")],
                      iz + 1)
             ELSE post_query_reply_loop_all(
                    [ms EXCEPT
                       !.m.peers = Upd(@, iz, [peer EXCEPT !.done = 3]),
                       !.m.pereq = Upd(@, iz, "send"),
                       !.sent = @ \cup {Message(m.mpirank, peer.rank,
                                                P4EST_COMM_TNODES_QUERY,
                                                peer.querypos)}],
                    iz + 1)

RECURSIVE post_query_reply_loop(_, _)
post_query_reply_loop(ms, iz) ==
  LET m == ms.m
  IN IF iz >= Len(m.peers) THEN ms
     ELSE LET peer == At(m.peers, iz)
          IN IF peer.bufcount = 0
               THEN post_query_reply_loop(
                      [ms EXCEPT !.m.pereq = Upd(@, iz, "null"),
                                 !.m.emptypeers = @ + 1],
                      iz + 1)
             ELSE IF peer.rank > m.mpirank
               THEN post_query_reply_loop(
                      [ms EXCEPT
                         !.m.peers = Upd(@, iz,
                                         [peer EXCEPT
                                            !.querypos = Fill(peer.bufcount, -1),
                                            !.done = 1]),
                         !.m.pereq = Upd(@, iz, "recv")],
                      iz + 1)
             ELSE post_query_reply_loop(
                    [ms EXCEPT
                       !.m.peers = Upd(@, iz, [peer EXCEPT !.done = 3]),
                       !.m.pereq = Upd(@, iz, "send"),
                       !.sent = @ \cup {Message(m.mpirank, peer.rank,
                                                P4EST_COMM_TNODES_QUERY,
                                                peer.querypos)}],
                    iz + 1)

post_query_reply(m) ==
  IF ~m.ghost \/ Len(m.peers) = 0 THEN [m |-> m, sent |-> {}]
  ELSE post_query_reply_loop(
         [m |-> [m EXCEPT !.pereq = Fill(Len(m.peers), "null")], sent |-> {}],
         0)

\* a reply that sends the positions of the query back
query_to_reply_echo(m, querypos) == querypos

\* a reply that sends back the candidate's index in the construct array in
\* place of its number among the owned nodes
query_to_reply_lni(m, querypos) ==
  [lcl \in 1 .. Len(querypos) |-> At(m.element_nodes, querypos[lcl])]

\* we have received a request and shall send a reply: the translation of
\* the query positions into the numbers of the owned nodes
query_to_reply(m, querypos) ==
  [lcl \in 1 .. Len(querypos) |->
     LET epos == querypos[lcl]
         lni == At(m.element_nodes, epos)
     IN At(m.construct, lni).runid]

\* process owner's node numbers in reply received: first loop
RECURSIVE reply_runids(_, _, _, _)
reply_runids(construct, querypos, sharedno, lcl) ==
  IF lcl >= Len(querypos) THEN construct
  ELSE reply_runids(
         Upd(construct, At(sharedno, lcl),
             [At(construct, At(sharedno, lcl)) EXCEPT
                !.runid = At(querypos, lcl)]),
         querypos, sharedno, lcl + 1)

\* a second loop that adds the offset of the local rank in place of the
\* offset of the peer
RECURSIVE reply_nonlocal_own_offset(_, _, _)
reply_nonlocal_own_offset(m, peer, lcl) ==
  IF lcl >= peer.bufcount THEN m
  ELSE LET lni == At(peer.remosort, lcl)
           cnode == At(m.construct, lni)
           nonloc == peer.shacumul + lcl
           gni == At(m.goffset, m.mpirank) + cnode.runid
       IN reply_nonlocal_own_offset(
            [m EXCEPT
               !.nonlocal_nodes = Upd(@, nonloc, gni),
               !.construct = Upd(@, lni, [cnode EXCEPT
                                            !.runid = m.num_owned + nonloc])],
            peer, lcl + 1)

\* a second loop that stores the global indices in the order the replies
\* arrive, at the first entry of nonlocal_nodes not yet written
RECURSIVE reply_nonlocal_arrival(_, _, _)
reply_nonlocal_arrival(m, peer, lcl) ==
  IF lcl >= peer.bufcount THEN m
  ELSE LET lni == At(peer.remosort, lcl)
           cnode == At(m.construct, lni)
           nonloc == MinOf({i \in 0 .. (Len(m.nonlocal_nodes) - 1) :
                              At(m.nonlocal_nodes, i) = -1})
           gni == At(m.goffset, peer.rank) + cnode.runid
       IN reply_nonlocal_arrival(
            [m EXCEPT
               !.nonlocal_nodes = Upd(@, nonloc, gni),
               !.construct = Upd(@, lni, [cnode EXCEPT
                                            !.runid = m.num_owned + nonloc])],
            peer, lcl + 1)

\* store shared node's global index: second loop
RECURSIVE reply_nonlocal(_, _, _)
reply_nonlocal(m, peer, lcl) ==
  IF lcl >= peer.bufcount THEN m
  ELSE LET lni == At(peer.remosort, lcl)
           cnode == At(m.construct, lni)
           nonloc == peer.shacumul + lcl
           gni == At(m.goffset, peer.rank) + cnode.runid
       IN reply_nonlocal(
            [m EXCEPT
               !.nonlocal_nodes = Upd(@, nonloc, gni),
               !.construct = Upd(@, lni, [cnode EXCEPT
                                            !.runid = m.num_owned + nonloc])],
            peer, lcl + 1)

\* a loop body that takes a peer of lower rank as done once the query to
\* it has been sent
wait_query_reply_one_no_reply(ms, j) ==
  LET m == ms.m
      peer == At(m.peers, j)
  IN IF peer.rank > m.mpirank
       THEN IF peer.done = 1
              THEN LET reply == query_to_reply(m, peer.querypos)
                   IN [ms EXCEPT
                         !.m.peers = Upd(@, j, [peer EXCEPT !.querypos = reply,
                                                            !.done = 2]),
                         !.m.pereq = Upd(@, j, "send"),
                         !.sent = @ \cup {Message(m.mpirank, peer.rank,
                                                  P4EST_COMM_TNODES_REPLY,
                                                  reply)}]
              ELSE [ms EXCEPT
                      !.m.peers = Upd(@, j, [peer EXCEPT !.done = 0]),
                      !.m.nwtotal = @ - 1]
     ELSE [ms EXCEPT
             !.m.peers = Upd(@, j, [peer EXCEPT !.done = 0]),
             !.m.nwtotal = @ - 1]

\* a loop body that counts a peer of higher rank as finished when the
\* reply to it is sent, and again when the send has completed
wait_query_reply_one_early(ms, j) ==
  LET m == ms.m
      peer == At(m.peers, j)
  IN IF peer.rank > m.mpirank
       THEN IF peer.done = 1
              THEN LET reply == query_to_reply(m, peer.querypos)
                   IN [ms EXCEPT
                         !.m.peers = Upd(@, j, [peer EXCEPT !.querypos = reply,
                                                            !.done = 2]),
                         !.m.pereq = Upd(@, j, "send"),
                         !.m.nwtotal = @ - 1,
                         !.sent = @ \cup {Message(m.mpirank, peer.rank,
                                                  P4EST_COMM_TNODES_REPLY,
                                                  reply)}]
              ELSE [ms EXCEPT
                      !.m.peers = Upd(@, j, [peer EXCEPT !.done = 0]),
                      !.m.nwtotal = @ - 1]
     ELSE IF peer.done = 3
       THEN [ms EXCEPT
               !.m.peers = Upd(@, j, [peer EXCEPT !.done = 4]),
               !.m.pereq = Upd(@, j, "recv")]
     ELSE LET c1 == reply_runids(m.construct, peer.querypos, peer.sharedno, 0)
              sorted == sc_array_sort(c1, peer.remosort, "rnode_compare")
              peer1 == [peer EXCEPT !.remosort = sorted]
              m1 == reply_nonlocal([m EXCEPT !.construct = c1], peer1, 0)
          IN [ms EXCEPT
                !.m = [m1 EXCEPT
                         !.peers = Upd(@, j, [peer1 EXCEPT !.done = 0]),
                         !.nwtotal = @ - 1]]

\* the body of the loop over the completed requests, for request j
wait_query_reply_one(ms, j) ==
  LET m == ms.m
      peer == At(m.peers, j)
  IN IF peer.rank > m.mpirank
       THEN IF peer.done = 1
              THEN LET reply == query_to_reply(m, peer.querypos)
                   IN [ms EXCEPT
                         !.m.peers = Upd(@, j, [peer EXCEPT !.querypos = reply,
                                                            !.done = 2]),
                         !.m.pereq = Upd(@, j, "send"),
                         !.sent = @ \cup {Message(m.mpirank, peer.rank,
                                                  P4EST_COMM_TNODES_REPLY,
                                                  reply)}]
              ELSE [ms EXCEPT
                      !.m.peers = Upd(@, j, [peer EXCEPT !.done = 0]),
                      !.m.nwtotal = @ - 1]
     ELSE IF peer.done = 3
       THEN [ms EXCEPT
               !.m.peers = Upd(@, j, [peer EXCEPT !.done = 4]),
               !.m.pereq = Upd(@, j, "recv")]
     ELSE LET c1 == reply_runids(m.construct, peer.querypos, peer.sharedno, 0)
              sorted == sc_array_sort(c1, peer.remosort, "rnode_compare")
              peer1 == [peer EXCEPT !.remosort = sorted]
              m1 == reply_nonlocal([m EXCEPT !.construct = c1], peer1, 0)
          IN [ms EXCEPT
                !.m = [m1 EXCEPT
                         !.peers = Upd(@, j, [peer1 EXCEPT !.done = 0]),
                         !.nwtotal = @ - 1]]

(***************************************************************************)
(* Finalization: assign_element_nodes and populate_sharers.                *)
(***************************************************************************)
set_element_node(m, le, nodene) ==
  LET lni == At(m.element_nodes, le * m.vnodes + nodene)
      runid == At(m.construct, lni).runid
  IN [m EXCEPT !.element_nodes = Upd(@, le, runid)]

RECURSIVE set_element_nodes(_, _, _, _, _)
set_element_nodes(m, le, list, i, n) ==
  IF i >= n THEN m
  ELSE set_element_nodes(set_element_node(m, le, At(list, i)),
                         le, list, i + 1, n)

ConfigIndex(config) == IF config <= 16 THEN config ELSE 17

assign_element_node(m, le) ==
  LET cind == ConfigIndex(At(m.configuration, le))
      ncorner == At(At(p4est_tnodes_config_count, cind), 0)
      nface == At(At(p4est_tnodes_config_count, cind), 1)
      m1 == set_element_nodes(m, le, At(p4est_tnodes_config_corners, cind),
                              0, ncorner)
  IN IF m.with_faces
       THEN set_element_nodes(m1, le, At(p4est_tnodes_config_faces, cind),
                              0, nface)
       ELSE m1

RECURSIVE assign_element_nodes_loop(_, _)
assign_element_nodes_loop(m, le) ==
  IF le >= m.num_local_elements THEN m
  ELSE assign_element_nodes_loop(assign_element_node(m, le), le + 1)

assign_element_nodes(m) == assign_element_nodes_loop(m, 0)

peer_sharer(m, q) == At(m.peers, At(m.proc_peer, q) - 1).sharind

\* the sharer record of a contributor: the local one or that of a peer
ContrSharer(m, contr) ==
  IF contr.rank = m.mpirank THEN m.locsharer ELSE peer_sharer(m, contr.rank)

PushShared(sharers, si, lni) ==
  Upd(sharers, si, [At(sharers, si) EXCEPT
                      !.shared_nodes = Append(@, lni)])

\* first iterate through owned nodes in order: every contributor of an
\* owned node that has sharers receives the node
RECURSIVE owned_sharers_contr(_, _, _, _)
owned_sharers_contr(m, cnode, lcl, zz) ==
  IF zz >= Len(cnode.contr) THEN m
  ELSE owned_sharers_contr(
         [m EXCEPT !.sharers =
            PushShared(@, ContrSharer(m, At(cnode.contr, zz)), lcl)],
         cnode, lcl, zz + 1)

RECURSIVE owned_sharers(_, _)
owned_sharers(m, lcl) ==
  IF lcl >= Len(m.ownsort) THEN m
  ELSE LET cnode == At(m.construct, At(m.ownsort, lcl))
       IN owned_sharers(
            IF Len(cnode.contr) = 1 THEN m
            ELSE owned_sharers_contr(m, cnode, lcl, 0),
            lcl + 1)

\* offsets that leave out the cumulative count of the lower peers
RECURSIVE sharer_offsets_no_cumul(_, _)
sharer_offsets_no_cumul(m, i) ==
  IF i >= Len(m.sortp) THEN m
  ELSE LET tp == At(m.peers, At(m.sortp, i))
           sharer == At(m.sharers, tp.sharind)
       IN sharer_offsets_no_cumul(
            [m EXCEPT !.sharers =
               Upd(@, tp.sharind,
                   [sharer EXCEPT
                      !.shared_mine_offset = 0,
                      !.shared_mine_count = Len(sharer.shared_nodes),
                      !.owned_offset = m.num_owned,
                      !.owned_count = IF tp.rank < m.mpirank
                                        THEN tp.bufcount ELSE 0])],
            i + 1)

\* determine the sharer offset and count variables
RECURSIVE sharer_offsets(_, _)
sharer_offsets(m, i) ==
  IF i >= Len(m.sortp) THEN m
  ELSE LET tp == At(m.peers, At(m.sortp, i))
           sharer == At(m.sharers, tp.sharind)
       IN sharer_offsets(
            [m EXCEPT !.sharers =
               Upd(@, tp.sharind,
                   [sharer EXCEPT
                      !.shared_mine_offset = 0,
                      !.shared_mine_count = Len(sharer.shared_nodes),
                      !.owned_offset = m.num_owned + tp.shacumul,
                      !.owned_count = IF tp.rank < m.mpirank
                                        THEN tp.bufcount ELSE 0])],
            i + 1)

\* iterate through the remote local nodes in order: the loop over the
\* contributors leaves the sharer of the last contributor, and the push
\* follows the loop
remote_sharer(m, cnode) ==
  ContrSharer(m, At(cnode.contr, Len(cnode.contr) - 1))

RECURSIVE remote_sharers_peer(_, _, _, _)
remote_sharers_peer(m, tp, lcl, lni) ==
  IF lcl >= tp.bufcount THEN m
  ELSE LET cnode == At(m.construct, At(tp.remosort, lcl))
       IN remote_sharers_peer(
            [m EXCEPT !.sharers = PushShared(@, remote_sharer(m, cnode), lni)],
            tp, lcl + 1, lni + 1)

RECURSIVE remote_sharers(_, _, _)
remote_sharers(m, i, lni) ==
  IF i >= Len(m.sortp) THEN m
  ELSE LET tp == At(m.peers, At(m.sortp, i))
       IN IF tp.rank < m.mpirank
            THEN remote_sharers(remote_sharers_peer(m, tp, 0, lni),
                                i + 1, lni + tp.bufcount)
            ELSE remote_sharers(m, i + 1, lni)

populate_sharers(m) ==
  IF ~m.ghost \/ Len(m.peers) = 0 THEN m
  ELSE LET m1 == owned_sharers(m, 0)
           m2 == [m1 EXCEPT !.sharers =
                    Upd(@, m.locsharer,
                        [At(@, m.locsharer) EXCEPT
                           !.shared_mine_offset = 0,
                           !.owned_offset = 0,
                           !.shared_mine_count = m.num_owned_shared,
                           !.owned_count = m.num_owned])]
           m3 == sharer_offsets(m2, 0)
       IN remote_sharers(m3, 0, m.num_owned)


(***************************************************************************)
(* p4est_tnodes_new as a state machine: every rank runs the same sequence  *)
(* of calls; the ranks meet in the all-gather and exchange the query and   *)
(* reply messages.                                                         *)
(***************************************************************************)
VARIABLES
  p4est,      \* the forest, its partition and the arguments of the call
  pc,         \* pc[r]: the call of p4est_tnodes_new rank r executes next
  me,         \* me[r]: tnodes_meta_t and the p4est_lnodes_t of rank r
  iterate,    \* iterate[r]: the events p4est_iterate has yet to deliver
  net,        \* the messages sent and not yet received
  allgather   \* allgather[r]: the owned count rank r has contributed, or -1

vars == << p4est, pc, me, iterate, net, allgather >>

\* the children of the root that may be refined once more
Refinable == {0}

Forests ==
  {LeavesOf(R) : R \in {S \in SUBSET Refinable : Cardinality(S) <= MaxRefine}}

\* global_first_quadrant of a partition of n leaves
Partitions(n) ==
  {gfq \in [1 .. (NumRanks + 1) -> 0 .. n] :
     /\ gfq[1] = 0
     /\ gfq[NumRanks + 1] = n
     /\ \A r \in 1 .. NumRanks :
          gfq[r] <= gfq[r + 1] /\ gfq[r + 1] - gfq[r] <= MaxLocal}

\* the state of a rank when p4est_iterate is called
tnodes_meta_new(sc, r) ==
  LET ghosts == IF sc.with_ghost THEN GhostLayer(sc.quads, sc.gfq, r)
                ELSE << >>
      vn == 9 + (IF sc.with_faces THEN 16 ELSE 0)
      lel == NumLocal(sc.gfq, r)
  IN [mpirank |-> r, mpisize |-> NumRanks,
      full_style |-> sc.full_style, with_faces |-> sc.with_faces,
      ghost |-> sc.with_ghost, ghosts |-> ghosts,
      ghost_rank |-> [i \in 1 .. Len(ghosts) |-> ghosts[i].rank],
      proc_peer |-> Fill(NumRanks, 0),
      sortp |-> << >>, peers |-> << >>, pereq |-> << >>,
      construct |-> << >>, ownsort |-> << >>,
      vnodes |-> vn, num_local_elements |-> lel,
      chilev |-> Fill(lel, 0), face_code |-> Fill(lel, 0),
      element_nodes |-> Fill(lel * vn, -1),
      configuration |-> Fill(lel, 0),
      lenum |-> 0,
      num_owned |-> 0, num_owned_shared |-> 0, num_shared |-> 0,
      num_all_shared |-> 0, emptypeers |-> 0, nwtotal |-> 0,
      locsharer |-> -1, sharers |-> << >>,
      owned_count |-> 0, num_local_nodes |-> 0, nonlocal_nodes |-> << >>,
      global_owned_count |-> << >>, goffset |-> << >>, global_offset |-> 0]

\* the calls of p4est_tnodes_new the model explores
Scenarios ==
  UNION {{[quads |-> quads, gfq |-> gfq, full_style |-> fs,
           with_faces |-> wf, with_ghost |-> wg] :
            gfq \in Partitions(Len(quads)),
            fs \in BOOLEAN, wf \in BOOLEAN, wg \in BOOLEAN} :
         quads \in Forests}

Start(sc) ==
  /\ p4est = sc
  /\ pc = [r \in Ranks |-> "p4est_iterate"]
  /\ me = [r \in Ranks |-> tnodes_meta_new(p4est, r)]
  /\ iterate = [r \in Ranks |->
                  p4est_iterate(p4est.quads, p4est.gfq, me[r].ghosts,
                                p4est.with_ghost, r)]
  /\ net = {}
  /\ allgather = [r \in Ranks |-> -1]

Init == \E sc \in Scenarios : Start(sc)

\* Before the all-gather a rank reads and writes its own memory only, and
\* what it sends is received after the all-gather alone: the steps of
\* different ranks commute there, and the model takes them in rank order.
Turn(r) == \A q \in Ranks : q < r => allgather[q] # -1

\* p4est_iterate delivers the next event to its callback
Deliver(r, type, m) ==
  /\ Turn(r)
  /\ pc[r] = "p4est_iterate"
  /\ iterate[r] # << >>
  /\ Head(iterate[r]).type = type
  /\ me' = [me EXCEPT ![r] = m]
  /\ iterate' = [iterate EXCEPT ![r] = Tail(@)]
  /\ UNCHANGED << p4est, pc, net, allgather >>

IterVolume(r) ==
  Deliver(r, "volume", iter_volume1(me[r], Head(iterate[r])))

IterFace(r) ==
  Deliver(r, "face", iter_face1(me[r], Head(iterate[r])))

IterCorner(r) ==
  Deliver(r, "corner", iter_corner1(me[r], Head(iterate[r])))

OwnedQueryReply(r) ==
  /\ Turn(r)
  /\ pc[r] = "p4est_iterate"
  /\ iterate[r] = << >>
  /\ me' = [me EXCEPT ![r] = owned_query_reply(@)]
  /\ pc' = [pc EXCEPT ![r] = "post_query_reply"]
  /\ UNCHANGED << p4est, iterate, net, allgather >>

PostQueryReply(r) ==
  /\ Turn(r)
  /\ pc[r] = "post_query_reply"
  /\ LET ms == post_query_reply(me[r])
     IN /\ me' = [me EXCEPT ![r] = ms.m]
        /\ net' = net \cup ms.sent
  /\ pc' = [pc EXCEPT ![r] = "sort_allgather"]
  /\ UNCHANGED << p4est, iterate, allgather >>

\* sort_allgather up to and including the entry into sc_MPI_Allgather
SortAllgather(r) ==
  /\ Turn(r)
  /\ pc[r] = "sort_allgather"
  /\ LET m == sort_allgather_sort(me[r])
     IN /\ me' = [me EXCEPT ![r] = m]
        /\ allgather' = [allgather EXCEPT ![r] = m.owned_count]
  /\ pc' = [pc EXCEPT ![r] = "sc_MPI_Allgather"]
  /\ UNCHANGED << p4est, iterate, net >>

\* sc_MPI_Allgather returns once every rank has contributed; the rest of
\* sort_allgather
AllgatherReturn(r) ==
  /\ pc[r] = "sc_MPI_Allgather"
  /\ \A q \in Ranks : allgather[q] # -1
  /\ me' = [me EXCEPT ![r] =
              sort_allgather_scan(@, [q \in 1 .. NumRanks |->
                                        allgather[q - 1]])]
  /\ pc' = [pc EXCEPT ![r] = "sort_peers"]
  /\ UNCHANGED << p4est, iterate, net, allgather >>

SortPeers(r) ==
  /\ pc[r] = "sort_peers"
  /\ me' = [me EXCEPT ![r] = sort_peers(@)]
  /\ pc' = [pc EXCEPT ![r] = "wait_query_reply"]
  /\ UNCHANGED << p4est, iterate, net, allgather >>

\* wait_query_reply up to the first sc_MPI_Waitsome
WaitQueryReply(r) ==
  /\ pc[r] = "wait_query_reply"
  /\ LET m == me[r]
         nwalloc == Len(m.peers)
         nwtotal == IF ~m.ghost \/ nwalloc = 0 THEN 0
                    ELSE nwalloc - m.emptypeers
     IN /\ me' = [me EXCEPT ![r].nwtotal = nwtotal]
        /\ pc' = [pc EXCEPT ![r] = IF nwtotal > 0 THEN "sc_MPI_Waitsome"
                                   ELSE "assign_element_nodes"]
  /\ UNCHANGED << p4est, iterate, net, allgather >>

\* the message a posted receive of rank r from peer j matches
Matching(m, j) ==
  LET peer == At(m.peers, j)
  IN {msg \in net :
        /\ msg.src = peer.rank
        /\ msg.dst = m.mpirank
        /\ msg.tag = IF peer.done = 1 THEN P4EST_COMM_TNODES_QUERY
                     ELSE P4EST_COMM_TNODES_REPLY}

\* a send can complete at any time, a receive once its message is there
Completable(m, j) ==
  \/ At(m.pereq, j) = "send"
  \/ At(m.pereq, j) = "recv" /\ Matching(m, j) # {}

\* a completion that fills the buffer and leaves the request as it was
Complete_request_kept(m, j) ==
  LET peer == At(m.peers, j)
      msg == CHOOSE x \in Matching(m, j) : TRUE
      buf == [i \in 1 .. Len(peer.querypos) |->
                IF i <= Len(msg.data) THEN msg.data[i] ELSE peer.querypos[i]]
  IN [m EXCEPT
        !.peers = IF At(m.pereq, j) = "recv"
                    THEN Upd(@, j, [peer EXCEPT !.querypos = buf])
                    ELSE @]

\* the completion of request j: the request becomes null, and a receive
\* has filled the buffer with the message
Complete(m, j) ==
  LET peer == At(m.peers, j)
      msg == CHOOSE x \in Matching(m, j) : TRUE
      buf == [i \in 1 .. Len(peer.querypos) |->
                IF i <= Len(msg.data) THEN msg.data[i] ELSE peer.querypos[i]]
  IN [m EXCEPT
        !.pereq = Upd(@, j, "null"),
        !.peers = IF At(m.pereq, j) = "recv"
                    THEN Upd(@, j, [peer EXCEPT !.querypos = buf])
                    ELSE @]

RECURSIVE wait_query_reply_loop(_, _)
wait_query_reply_loop(ms, waitind) ==
  IF waitind = << >> THEN ms
  ELSE wait_query_reply_loop(wait_query_reply_one(ms, Head(waitind)),
                             Tail(waitind))

RECURSIVE CompleteAll(_, _)
CompleteAll(m, waitind) ==
  IF waitind = << >> THEN m
  ELSE CompleteAll(Complete(m, Head(waitind)), Tail(waitind))

\* sc_MPI_Waitsome returns a nonempty set of completed requests, and the
\* loop over them runs
Waitsome(r) ==
  /\ pc[r] = "sc_MPI_Waitsome"
  /\ \E W \in SUBSET {j \in 0 .. (Len(me[r].peers) - 1) :
                        Completable(me[r], j)} :
       /\ W # {}
       /\ LET waitind == SortedSeq(W)
              received == UNION {IF At(me[r].pereq, j) = "recv"
                                   THEN Matching(me[r], j) ELSE {} : j \in W}
              ms == wait_query_reply_loop(
                      [m |-> CompleteAll(me[r], waitind), sent |-> {}],
                      waitind)
          IN /\ me' = [me EXCEPT ![r] = ms.m]
             /\ net' = (net \ received) \cup ms.sent
             /\ pc' = [pc EXCEPT ![r] =
                         IF ms.m.nwtotal > 0 THEN "sc_MPI_Waitsome"
                         ELSE "assign_element_nodes"]
  /\ UNCHANGED << p4est, iterate, allgather >>

AssignElementNodes(r) ==
  /\ pc[r] = "assign_element_nodes"
  /\ me' = [me EXCEPT ![r] = assign_element_nodes(@)]
  /\ pc' = [pc EXCEPT ![r] = "populate_sharers"]
  /\ UNCHANGED << p4est, iterate, net, allgather >>

PopulateSharers(r) ==
  /\ pc[r] = "populate_sharers"
  /\ me' = [me EXCEPT ![r] = populate_sharers(@)]
  /\ pc' = [pc EXCEPT ![r] = "return"]
  /\ UNCHANGED << p4est, iterate, net, allgather >>

\* the next step of rank r
Step(r) ==
  \/ IterVolume(r)
  \/ IterFace(r)
  \/ IterCorner(r)
  \/ OwnedQueryReply(r)
  \/ PostQueryReply(r)
  \/ SortAllgather(r)
  \/ AllgatherReturn(r)
  \/ SortPeers(r)
  \/ WaitQueryReply(r)
  \/ Waitsome(r)
  \/ AssignElementNodes(r)
  \/ PopulateSharers(r)

Next == \E r \in Ranks : Step(r)

Spec == Init /\ [][Next]_vars

\* rank r can take a step: it is not blocked in sc_MPI_Allgather or in
\* sc_MPI_Waitsome and has not returned (ENABLED Step(r), from the guards)
CanStep(r) ==
  CASE pc[r] \in {"p4est_iterate", "post_query_reply", "sort_allgather"} ->
         Turn(r)
    [] pc[r] = "sc_MPI_Allgather" -> \A q \in Ranks : allgather[q] # -1
    [] pc[r] = "sc_MPI_Waitsome" ->
         \E j \in 0 .. (Len(me[r].peers) - 1) : Completable(me[r], j)
    [] pc[r] = "return" -> FALSE
    [] OTHER -> TRUE

\* a step of rank r has been taken: only Step(r) changes the state of r
RankMoves(r) ==
  pc'[r] # pc[r] \/ me'[r] # me[r] \/ iterate'[r] # iterate[r]

\* weak fairness of Step(r), WF_vars(Step(r)), with ENABLED written out
WeakFair(r) == []<>(~CanStep(r)) \/ []<><<RankMoves(r)>>_vars

\* Every rank is a process that keeps running, and the transport is
\* reliable: a step of a rank that stays possible is taken, a message sent
\* stays in flight until its receive completes.
LiveSpec == Init /\ [][Next]_vars /\ \A r \in Ranks : WeakFair(r)


(***************************************************************************)
(* The place of a node position in the plane, in quarters of the side of   *)
(* a level-2 quadrant: what makes candidates of different ranks the same   *)
(* node.                                                                   *)
(***************************************************************************)
IndexIn(list, v) == (CHOOSE i \in 1 .. Len(list) : list[i] = v) - 1

FacePoint(q, f, along) ==
  CASE f = 0 -> << 4 * q.x, 4 * q.y + along >>
    [] f = 1 -> << 4 * (q.x + q.len), 4 * q.y + along >>
    [] f = 2 -> << 4 * q.x + along, 4 * q.y >>
    [] f = 3 -> << 4 * q.x + along, 4 * (q.y + q.len) >>

NodePoint(q, nodene) ==
  IF nodene \in Range(n_ccorn)
    THEN << 4 * (q.x + q.len * (nodene % 2)),
            4 * (q.y + q.len * (nodene \div 2)) >>
  ELSE IF nodene = n_center
    THEN << 4 * q.x + 2 * q.len, 4 * q.y + 2 * q.len >>
  ELSE IF nodene \in Range(n_mface)
    THEN FacePoint(q, IndexIn(n_mface, nodene), 2 * q.len)
  ELSE IF nodene \in Range(n_cface)
    THEN LET k == IndexIn(n_cface, nodene)
         IN << 4 * q.x + q.len + 2 * q.len * (k % 2),
               4 * q.y + q.len + 2 * q.len * (k \div 2) >>
  ELSE IF nodene \in Range(n_split)
    THEN LET f == IndexIn(n_split, nodene)
             c == << 4 * q.x + 2 * q.len, 4 * q.y + 2 * q.len >>
             fp == FacePoint(q, f, 2 * q.len)
         IN << (c[1] + fp[1]) \div 2, (c[2] + fp[2]) \div 2 >>
  ELSE LET f == CHOOSE g \in 0 .. 3 : nodene \in Range(At(n_hface, g))
           j == IndexIn(At(n_hface, f), nodene)
       IN FacePoint(q, f, q.len + 2 * q.len * j)

\* the place of the node a contributor (rank, le, nodene) refers to
ContrPoint(contr) ==
  NodePoint(At(p4est.quads, At(p4est.gfq, contr.rank) + contr.le),
            contr.nodene)

CnodePoint(cnode) == ContrPoint(At(cnode.contr, 0))

ContrRanks(cnode) == {cnode.contr[i].rank : i \in 1 .. Len(cnode.contr)}

\* the place of position nodene of local element le of rank r
ElementPoint(r, le, nodene) ==
  NodePoint(At(p4est.quads, At(p4est.gfq, r) + le), nodene)


(***************************************************************************)
(* Properties of the numbering.                                            *)
(***************************************************************************)
Returned(r) == pc[r] = "return"

AllReturned == \A r \in Ranks : Returned(r)

\* the exchange of rank r is over: wait_query_reply has returned
Exchanged(r) ==
  pc[r] \in {"assign_element_nodes", "populate_sharers", "return"}

\* sort_allgather has returned on rank r
Gathered(r) ==
  pc[r] \notin {"p4est_iterate", "post_query_reply", "sort_allgather",
                "sc_MPI_Allgather"}

Cnodes(r) == 1 .. Len(me[r].construct)

\* the candidates rank r owns, and those a local element of r refers to
OwnedBy(r) == {i \in Cnodes(r) : OwnerOf(me[r].construct[i]).rank = r}

LocalTo(r) == {i \in Cnodes(r) : r \in ContrRanks(me[r].construct[i])}

\* every rank with a local contributor to a node owned by another rank
\* holds the owner's global id of the node in nonlocal_nodes
OneGlobalId ==
  \A p \in Ranks : \A q \in Ranks \ {p} :
    \A i \in OwnedBy(p) : \A k \in LocalTo(q) :
      LET a == me[p].construct[i]
          b == me[q].construct[k]
      IN CnodePoint(a) = CnodePoint(b) =>
           /\ b.runid >= me[q].owned_count
           /\ b.runid < me[q].num_local_nodes
           /\ At(me[q].nonlocal_nodes, b.runid - me[q].owned_count)
                = me[p].global_offset + a.runid

\* C1 as stated: after p4est_tnodes_new has completed on all ranks, a node
\* owned by rank p with sorted owned index n has the global id
\* global_offset[p] + n on every other rank that has a local contributor to
\* it, whatever the order in which the messages completed.
C1_AsStated == AllReturned => OneGlobalId

\* C1: after p4est_tnodes_new has completed on all ranks of a call that
\* was given the ghost layer, a node owned by rank p with sorted owned
\* index n has the global id global_offset[p] + n on every other rank that
\* has a local contributor to it, whatever the order in which the messages
\* completed.
C1_GlobalIdWithGhost == (AllReturned /\ p4est.with_ghost) => OneGlobalId

\* a node owned by one rank that two other ranks have received the id of
C1_Witness ==
  /\ AllReturned
  /\ p4est.with_ghost
  /\ \E p \in Ranks : \E i \in OwnedBy(p) :
       /\ Cardinality(ContrRanks(me[p].construct[i])) = 3
       /\ \A q \in Ranks \ {p} : \E k \in LocalTo(q) :
            /\ CnodePoint(me[q].construct[k]) = CnodePoint(me[p].construct[i])
            /\ At(me[q].nonlocal_nodes,
                  me[q].construct[k].runid - me[q].owned_count)
                 = me[p].global_offset + me[p].construct[i].runid

\* C3: the offsets sort_allgather computes start at 0, each is its
\* predecessor plus that rank's owned count, they do not decrease, the
\* ranges [goffset[q], goffset[q+1]) tile 0 .. (sum of the owned counts) - 1
\* without gap or overlap, global_offset is goffset[own rank], and every
\* rank computes the same vector.
C3_GlobalOffsets ==
  \A r \in Ranks : Gathered(r) =>
    LET m == me[r]
    IN /\ Len(m.goffset) = NumRanks + 1
       /\ At(m.goffset, 0) = 0
       /\ \A q \in Ranks :
            /\ At(m.global_owned_count, q) = me[q].owned_count
            /\ At(m.goffset, q + 1)
                 = At(m.goffset, q) + At(m.global_owned_count, q)
            /\ At(m.goffset, q) <= At(m.goffset, q + 1)
       /\ At(m.goffset, NumRanks)
            = SumSeq([q \in 1 .. NumRanks |-> me[q - 1].owned_count])
       /\ \A gni \in 0 .. (At(m.goffset, NumRanks) - 1) :
            Cardinality({q \in Ranks : /\ At(m.goffset, q) <= gni
                                       /\ gni < At(m.goffset, q + 1)}) = 1
       /\ m.global_offset = At(m.goffset, r)
       /\ \A q \in Ranks : Gathered(q) => me[q].goffset = m.goffset

\* all ranks have the offsets, and every rank owns nodes
C3_Witness ==
  /\ \A r \in Ranks : Gathered(r) /\ me[r].owned_count > 0
  /\ me[NumRanks - 1].global_offset > me[1].global_offset

\* C4: after the exchange nonlocal_nodes is strictly increasing over its
\* whole length num_shared on every rank, whatever the order in which the
\* replies of the peers were processed.
C4_NonlocalIncreasing ==
  \A r \in Ranks : Exchanged(r) =>
    /\ Len(me[r].nonlocal_nodes) = me[r].num_shared
    /\ \A i \in 1 .. Len(me[r].nonlocal_nodes) :
         \A k \in 1 .. Len(me[r].nonlocal_nodes) :
           i < k => me[r].nonlocal_nodes[i] < me[r].nonlocal_nodes[k]

\* a rank that received several nodes from each of two owners
C4_Witness ==
  \E r \in Ranks :
    /\ Exchanged(r)
    /\ \E i \in 1 .. Len(me[r].peers) : \E k \in 1 .. Len(me[r].peers) :
         /\ me[r].peers[i].rank < me[r].peers[k].rank
         /\ me[r].peers[k].rank < r
         /\ me[r].peers[i].bufcount >= 2
         /\ me[r].peers[k].bufcount >= 1

\* the candidate of rank r with local index n
NodeOf(r, n) == CHOOSE i \in LocalTo(r) : me[r].construct[i].runid = n

\* C5: for every local index n >= owned_count, nonlocal_nodes[n -
\* owned_count] lies in [goffset[owner(n)], goffset[owner(n) + 1]) for the
\* owner rank of the node, and outside the range of the local rank.
C5_NonlocalInOwnerRange ==
  \A r \in Ranks : Exchanged(r) =>
    \A n \in me[r].owned_count .. (me[r].num_local_nodes - 1) :
      /\ \E i \in LocalTo(r) : me[r].construct[i].runid = n
      /\ LET owner == OwnerOf(me[r].construct[NodeOf(r, n)]).rank
             gni == At(me[r].nonlocal_nodes, n - me[r].owned_count)
         IN /\ owner # r
            /\ At(me[r].goffset, owner) <= gni
            /\ gni < At(me[r].goffset, owner + 1)
            /\ ~(/\ At(me[r].goffset, r) <= gni
                 /\ gni < At(me[r].goffset, r + 1))

\* a rank with nodes of two different owners in nonlocal_nodes
C5_Witness ==
  \E r \in Ranks :
    /\ Exchanged(r)
    /\ \E n1 \in me[r].owned_count .. (me[r].num_local_nodes - 1) :
         \E n2 \in me[r].owned_count .. (me[r].num_local_nodes - 1) :
           OwnerOf(me[r].construct[NodeOf(r, n1)]).rank
             # OwnerOf(me[r].construct[NodeOf(r, n2)]).rank


(***************************************************************************)
(* node_register called in any order: a rank registers contributors of     *)
(* any rank, element and corner position to the candidates of its          *)
(* registry, within the preconditions the function asserts.                *)
(***************************************************************************)
RegInit ==
  /\ \E sc \in Scenarios :
       /\ sc.quads = LeavesOf({})
       /\ \A r \in Ranks : NumLocal(sc.gfq, r) > 0
       /\ ~sc.full_style /\ ~sc.with_faces /\ sc.with_ghost
       /\ p4est = sc
  /\ \E l \in Ranks :
       pc = [r \in Ranks |-> IF r = l THEN "node_register" ELSE "idle"]
  /\ me = [r \in Ranks |-> tnodes_meta_new(p4est, r)]
  /\ iterate = [r \in Ranks |-> << >>]
  /\ net = {}
  /\ allgather = [r \in Ranks |-> -1]

NodeRegister(r) ==
  /\ pc[r] = "node_register"
  /\ \E lni \in -1 .. (Len(me[r].construct) - 1) :
     \E rank0 \in {-1} \cup (Ranks \ {r}) :
     \E nodene \in Range(n_ccorn) :
       LET rank == IF rank0 = -1 THEN r ELSE rank0
       IN \E le \in 0 .. (NumLocal(p4est.gfq, rank) - 1) :
            /\ lni = -1 => Len(me[r].construct) < MaxCand
            /\ rank = r =>
                 At(me[r].element_nodes, le * me[r].vnodes + nodene) = -1
            /\ me' = [me EXCEPT ![r] =
                        node_register([m |-> @, lni |-> lni,
                                       lnh |-> << -1, -1 >>],
                                      "lni", rank0, le, nodene,
                                      P4EST_CONNECT_CORNER).m]
  /\ UNCHANGED << p4est, pc, iterate, net, allgather >>

RegNext == \E r \in Ranks : NodeRegister(r)

RegSpec == RegInit /\ [][RegNext]_vars

\* C2: after any sequence of node_register calls on a candidate, in any
\* order of ranks, elements and positions, the owner of the candidate is
\* the contributor of the smallest rank among its contributors, and no
\* other contributor has that rank.
C2_OwnerIsLeastRank ==
  \A r \in Ranks : \A i \in Cnodes(r) :
    LET cnode == me[r].construct[i]
    IN /\ cnode.owner \in 0 .. (Len(cnode.contr) - 1)
       /\ \A zz \in 0 .. (Len(cnode.contr) - 1) :
            /\ OwnerOf(cnode).rank <= At(cnode.contr, zz).rank
            /\ OwnerOf(cnode).rank = At(cnode.contr, zz).rank
                 => zz = cnode.owner

\* contributors pushed in the order of ranks 1, 0, 2: the owner changed with
\* the second push and was found again by the rescan after the third
C2_Witness ==
  \E r \in Ranks : \E i \in Cnodes(r) :
    LET cnode == me[r].construct[i]
    IN /\ Len(cnode.contr) = 3
       /\ cnode.contr[1].rank = 1
       /\ cnode.contr[2].rank = 0
       /\ cnode.contr[3].rank = 2
       /\ cnode.owner = 1


(***************************************************************************)
(* Properties of the finalization.                                         *)
(***************************************************************************)
\* assign_element_nodes has returned on rank r
Assigned(r) == pc[r] \in {"populate_sharers", "return"}

\* the positions the configuration tables list for local element le
Listed(m, le) ==
  LET cind == ConfigIndex(At(m.configuration, le))
      cnt == At(p4est_tnodes_config_count, cind)
  IN {At(At(p4est_tnodes_config_corners, cind), ci) :
        ci \in 0 .. (At(cnt, 0) - 1)}
     \cup (IF m.with_faces
             THEN {At(At(p4est_tnodes_config_faces, cind), fi) :
                     fi \in 0 .. (At(cnt, 1) - 1)}
             ELSE {})

Elements(r) == 0 .. (me[r].num_local_elements - 1)

\* C6 as stated: after assign_element_nodes, for every local element le and
\* every position pos listed for its configuration, element_nodes[le *
\* vnodes + pos] holds the final local index of the candidate the slot
\* referred to during the traversal.
C6_AsStated ==
  \A r \in Ranks : Assigned(r) =>
    \A le \in Elements(r) : \A pos \in Listed(me[r], le) :
      \E i \in LocalTo(r) :
        /\ CnodePoint(me[r].construct[i]) = ElementPoint(r, le, pos)
        /\ At(me[r].element_nodes, le * me[r].vnodes + pos)
             = me[r].construct[i].runid

\* C7 as stated: in the returned structure, a position the configuration
\* tables list for an element holds a value in [0, num_local_nodes), and
\* every other position holds the sentinel -1.
C7_AsStated ==
  \A r \in Ranks : Returned(r) =>
    \A le \in Elements(r) : \A pos \in 0 .. (me[r].vnodes - 1) :
      LET lni == At(me[r].element_nodes, le * me[r].vnodes + pos)
      IN IF pos \in Listed(me[r], le)
           THEN 0 <= lni /\ lni < me[r].num_local_nodes
           ELSE lni = -1

\* C8 as stated: after populate_sharers, for every sharer record of a rank
\* q other than the local rank, a local node index is in shared_nodes if
\* and only if q is among the contributors of the node.
C8_AsStated ==
  \A r \in Ranks : Returned(r) =>
    \A si \in 1 .. Len(me[r].sharers) :
      LET sharer == me[r].sharers[si]
      IN sharer.rank # r =>
           \A n \in 0 .. (me[r].num_local_nodes - 1) :
             n \in Range(sharer.shared_nodes)
               <=> sharer.rank \in ContrRanks(me[r].construct[NodeOf(r, n)])

\* sort_peers has returned on rank r
SortedPeers(r) ==
  pc[r] \in {"wait_query_reply", "sc_MPI_Waitsome", "assign_element_nodes",
             "populate_sharers", "return"}

PeerRanks(r) == {me[r].peers[i].rank : i \in 1 .. Len(me[r].peers)}

\* one record per peer rank and one for the local rank
OneSharerEach(r) ==
  /\ Len(me[r].sharers) = Cardinality(PeerRanks(r)) + 1
  /\ {me[r].sharers[si].rank : si \in 1 .. Len(me[r].sharers)}
       = PeerRanks(r) \cup {r}

\* C9 as stated: on every rank the returned sharers array holds exactly one
\* record per peer rank plus one record for the local rank, a rank without
\* peers included.
C9_AsStated == \A r \in Ranks : Returned(r) => OneSharerEach(r)

\* C9: on every rank that has a peer, the sharers array holds exactly one
\* record per peer rank plus one record for the local rank, from sort_peers
\* on; on a rank without peers (no leaves, no neighbour rank, or no ghost
\* layer) the sharers array stays empty.
C9_SharersWithPeers ==
  \A r \in Ranks : SortedPeers(r) =>
    IF me[r].ghost /\ me[r].peers # << >>
      THEN OneSharerEach(r)
      ELSE me[r].sharers = << >> /\ me[r].locsharer = -1

\* a returned rank between two peers, its own record the second of three
C9_Witness ==
  \E r \in Ranks :
    /\ Returned(r)
    /\ Len(me[r].peers) = 2
    /\ Len(me[r].sharers) = 3
    /\ me[r].locsharer = 1
    /\ me[r].sharers[2].rank = r

\* the nodes local to rank r that rank q owns
SharedIn(r, q) ==
  {i \in LocalTo(r) : OwnerOf(me[r].construct[i]).rank = q}

\* C10: in the sharer record of a peer rank q the nodes owned by q take the
\* local indices [owned_offset, owned_offset + owned_count), owned_offset
\* being num_owned plus the number of shared-in nodes owned by ranks below
\* q and owned_count the number of shared-in nodes owned by q, and the
\* entries of shared_nodes at [shared_mine_offset, shared_mine_offset +
\* shared_mine_count) are the nodes of the list the local rank owns.  The
\* local record has owned_offset 0, owned_count num_owned, and
\* shared_mine_count the number of owned nodes with several contributors.
C10_SharerOffsets ==
  \A r \in Ranks : Returned(r) =>
    \A si \in 1 .. Len(me[r].sharers) :
      LET m == me[r]
          sharer == m.sharers[si]
          q == sharer.rank
          below == UNION {SharedIn(r, o) : o \in {o \in Ranks \ {r} : o < q}}
          mine == sharer.shared_mine_offset
                    .. (sharer.shared_mine_offset
                          + sharer.shared_mine_count - 1)
      IN IF q # r
           THEN /\ sharer.owned_offset = m.num_owned + Cardinality(below)
                /\ sharer.owned_count = Cardinality(SharedIn(r, q))
                /\ q > r => sharer.owned_count = 0
                /\ {m.construct[i].runid : i \in SharedIn(r, q)}
                     = sharer.owned_offset
                         .. (sharer.owned_offset + sharer.owned_count - 1)
                /\ mine \subseteq 0 .. (Len(sharer.shared_nodes) - 1)
                /\ {At(sharer.shared_nodes, k) : k \in mine}
                     = {n \in Range(sharer.shared_nodes) :
                          OwnerOf(m.construct[NodeOf(r, n)]).rank = r}
                /\ \A k \in 0 .. (Len(sharer.shared_nodes) - 1) :
                     k \notin mine =>
                       OwnerOf(m.construct[NodeOf(r,
                                 At(sharer.shared_nodes, k))]).rank # r
           ELSE /\ sharer.owned_offset = 0
                /\ sharer.owned_count = m.num_owned
                /\ m.num_owned = Cardinality(OwnedBy(r))
                /\ sharer.shared_mine_count
                     = Cardinality({i \in OwnedBy(r) :
                                      Len(m.construct[i].contr) > 1})

\* a returned rank with nodes of a lower peer and nodes it owns that a
\* higher peer shares
C10_Witness ==
  \E r \in Ranks :
    /\ Returned(r)
    /\ \E si \in 1 .. Len(me[r].sharers) : \E sk \in 1 .. Len(me[r].sharers) :
         /\ me[r].sharers[si].rank < r
         /\ me[r].sharers[si].owned_count >= 2
         /\ me[r].sharers[sk].rank > r
         /\ me[r].sharers[sk].shared_mine_count >= 1
         /\ me[r].sharers[sk].owned_offset > me[r].num_owned


(***************************************************************************)
(* The traversal of one element: rank 0 receives the volume event of its   *)
(* element 0 and then one face event for each of the four faces, in any    *)
(* order, the face being on the boundary, shared with a leaf of the same   *)
(* size, or split on the other side into two leaves of rank 1.             *)
(***************************************************************************)
MaxLevel == 2

\* the ghost layer of the element: two leaves of rank 1 across each face
ConfGhosts == [i \in 1 .. 8 |-> [rank |-> 1, local_num |-> i - 1]]

ConfInit ==
  /\ \E sc \in Scenarios :
       /\ sc.quads = LeavesOf({})
       /\ NumLocal(sc.gfq, 0) = 1
       /\ NumLocal(sc.gfq, 1) = 0
       /\ p4est = sc
  /\ pc = [r \in Ranks |-> IF r = 0 THEN "iter_volume1" ELSE "idle"]
  /\ me = [r \in Ranks |->
             IF r = 0 /\ p4est.with_ghost
               THEN [tnodes_meta_new(p4est, r) EXCEPT
                       !.ghosts = ConfGhosts,
                       !.ghost_rank = [i \in 1 .. 8 |-> 1]]
               ELSE tnodes_meta_new(p4est, r)]
  /\ iterate = [r \in Ranks |-> {}]
  /\ net = {}
  /\ allgather = [r \in Ranks |-> -1]

\* the volume event of a leaf of any level and child id
ConfVolume(r) ==
  /\ pc[r] = "iter_volume1"
  /\ \E level \in 0 .. MaxLevel :
     \E childid \in IF level = 0 THEN {0} ELSE 0 .. 3 :
       /\ me' = [me EXCEPT ![r] =
                   iter_volume1(@, [type |-> "volume", quadid |-> 0,
                                    level |-> level, childid |-> childid])]
       /\ iterate' = [iterate EXCEPT ![r] = 0 .. 3]
  /\ pc' = [pc EXCEPT ![r] = "iter_face1"]
  /\ UNCHANGED << p4est, net, allgather >>

\* the sides of the face event of face f: kind 0 boundary, 1 same size,
\* 2 split on the other side
ConfSides(m, f, kind) ==
  LET level == At(m.chilev, 0) \div 8
      of == OppositeFace(f)
      full == [is_hanging |-> FALSE, face |-> f, is_ghost |-> FALSE,
               quadid |-> 0, level |-> level]
      same == [is_hanging |-> FALSE, face |-> of, is_ghost |-> TRUE,
               quadid |-> 2 * f, level |-> level]
      small == [is_hanging |-> TRUE, face |-> of,
                is_ghost |-> << TRUE, TRUE >>,
                quadid |-> << 2 * f, 2 * f + 1 >>,
                childid |-> << At(At(p4est_face_corners, of), 0),
                               At(At(p4est_face_corners, of), 1) >>]
  IN CASE kind = 0 -> << full >>
       [] kind = 1 -> IF f % 2 = 1 THEN << full, same >> ELSE << same, full >>
       [] OTHER -> IF f % 2 = 1 THEN << full, small >> ELSE << small, full >>

\* the face event of a face not yet visited
ConfFace(r) ==
  /\ pc[r] = "iter_face1"
  /\ \E f \in iterate[r] :
     \E kind \in IF At(me[r].chilev, 0) \div 8 = 0 THEN {0} ELSE 0 .. 2 :
       /\ me' = [me EXCEPT ![r] =
                   iter_face1(@, [type |-> "face", orientation |-> 0,
                                  sides |-> ConfSides(me[r], f, kind)])]
       /\ iterate' = [iterate EXCEPT ![r] = @ \ {f}]
  /\ UNCHANGED << p4est, pc, net, allgather >>

ConfNext == ConfVolume(0) \/ ConfFace(0)

ConfSpec == ConfInit /\ [][ConfNext]_vars

\* the codes of the 18 table patterns
ConfigCodes == (0 .. 16) \cup {32}

\* C11: in every state of the traversal of an element, a volume event
\* followed by face events with any subset of its four faces split, the
\* configuration of every local element is one of the codes 0..16 or 32.
C11_ConfigurationCode ==
  \A r \in Ranks : \A le \in Elements(r) :
    At(me[r].configuration, le) \in ConfigCodes

\* all four faces of the element have been visited and are split
C11_Witness ==
  /\ pc[0] = "iter_face1"
  /\ iterate[0] = {}
  /\ At(me[0].configuration, 0) = 15


(***************************************************************************)
(* Properties of the exchange.                                             *)
(***************************************************************************)
\* every peer of rank r is in state done
AllDone(r) == \A j \in 1 .. Len(me[r].peers) : me[r].peers[j].done = 0

\* C12: with a reliable transport and every rank running, the drain loop
\* of wait_query_reply terminates on every rank with all its peers done,
\* for every partition and every order in which the requests complete.
C12_DrainTerminates ==
  <>(\A r \in Ranks : Exchanged(r) /\ AllDone(r) /\ me[r].nwtotal = 0)

\* a rank has left the drain loop after it answered a higher peer and was
\* answered by a lower peer
C12_Witness ==
  \E r \in Ranks :
    /\ Exchanged(r)
    /\ AllDone(r)
    /\ \E i \in 1 .. Len(me[r].peers) : \E k \in 1 .. Len(me[r].peers) :
         /\ me[r].peers[i].rank < r /\ me[r].peers[i].bufcount > 0
         /\ me[r].peers[k].rank > r /\ me[r].peers[k].bufcount > 0


(***************************************************************************)
(* The run of p4est_tnodes_new in which every rank completes the requests  *)
(* of its peers one peer after the other, in the order of the peers array. *)
(***************************************************************************)
RECURSIVE Traverse(_, _)
Traverse(m, events) ==
  IF events = << >> THEN m
  ELSE LET e == Head(events)
           called == CASE e.type = "volume" -> iter_volume1(m, e)
                       [] e.type = "face" -> iter_face1(m, e)
                       [] OTHER -> iter_corner1(m, e)
       IN IF called.mpirank = m.mpirank THEN Traverse(called, Tail(events))
          ELSE m

\* rank r when it enters sc_MPI_Allgather
Elected(sc, r) ==
  LET m == tnodes_meta_new(sc, r)
  IN sort_allgather_sort(
       post_query_reply(
         owned_query_reply(
           Traverse(m, p4est_iterate(sc.quads, sc.gfq, m.ghosts,
                                     sc.with_ghost, r)))).m)

\* all ranks when they enter wait_query_reply
Peered(sc) ==
  LET el == [r \in Ranks |-> Elected(sc, r)]
      counts == [q \in 1 .. NumRanks |-> el[q - 1].owned_count]
  IN [r \in Ranks |-> sort_peers(sort_allgather_scan(el[r], counts))]

\* the buffer of peer j filled by a completed receive
Received(m, j, data) ==
  [m EXCEPT !.peers = Upd(@, j, [At(@, j) EXCEPT !.querypos = data])]

\* the requests of peer j completed one after the other
DrainPeer(pre, m, j) ==
  LET peer == At(m.peers, j)
      other == pre[peer.rank]
      query == At(other.peers, PeerOf(other, m.mpirank)).querypos
      ms == [m |-> m, sent |-> {}]
  IN IF peer.bufcount = 0 THEN m
     ELSE IF peer.rank > m.mpirank
       THEN wait_query_reply_one(
              wait_query_reply_one([ms EXCEPT !.m = Received(m, j, query)], j),
              j).m
     ELSE LET m4 == wait_query_reply_one(ms, j).m
              reply == query_to_reply(other, peer.querypos)
          IN wait_query_reply_one([ms EXCEPT !.m = Received(m4, j, reply)],
                                  j).m

RECURSIVE Drain(_, _, _)
Drain(pre, m, j) ==
  IF ~m.ghost \/ j >= Len(m.peers) THEN m
  ELSE LET drained == DrainPeer(pre, m, j)
       IN IF drained.mpirank = m.mpirank THEN Drain(pre, drained, j + 1)
          ELSE m

\* the structure rank r returns in that run
Sequential(sc, r) ==
  LET pre == Peered(sc)
  IN populate_sharers(assign_element_nodes(Drain(pre, pre[r], 0)))

\* the members of the returned structure
Output(m) ==
  [owned_count |-> m.owned_count, num_local_nodes |-> m.num_local_nodes,
   element_nodes |-> m.element_nodes, configuration |-> m.configuration,
   face_code |-> m.face_code, nonlocal_nodes |-> m.nonlocal_nodes,
   global_owned_count |-> m.global_owned_count,
   global_offset |-> m.global_offset, goffset |-> m.goffset,
   sharers |-> m.sharers]

\* C13: the output is deterministic: whatever the order in which the
\* messages arrive and whatever requests each sc_MPI_Waitsome reports, every
\* rank returns the structure of the run that completes the requests one
\* peer after the other.
C13_Deterministic ==
  AllReturned =>
    \A r \in Ranks : Output(me[r]) = Output(Sequential(p4est, r))

\* all ranks have returned, one of them after it received the replies of
\* two lower peers
C13_Witness ==
  /\ AllReturned
  /\ \E r \in Ranks :
       \E i \in 1 .. Len(me[r].peers) : \E k \in 1 .. Len(me[r].peers) :
         /\ me[r].peers[i].rank < me[r].peers[k].rank
         /\ me[r].peers[k].rank < r
         /\ me[r].peers[i].bufcount > 0
         /\ me[r].peers[k].bufcount > 0
         /\ i > k


(***************************************************************************)
(* Transport faults: any MPI call of a rank may report an error.  Every    *)
(* return value is passed to SC_CHECK_MPI, which ends the process.         *)
(***************************************************************************)
sc_MPI_SUCCESS == "sc_MPI_SUCCESS"
sc_MPI_ERR_OTHER == "sc_MPI_ERR_OTHER"

\* a check that lets the rank go on whatever the call reported
SC_CHECK_MPI_ignored(mpiret, next) == next

\* SC_CHECK_MPI (mpiret): the position of the rank after the check
SC_CHECK_MPI(mpiret, next) ==
  IF mpiret = sc_MPI_SUCCESS THEN next ELSE "sc_abort"

\* the state of a rank with the return value of its last MPI call
WithMpiret(m, mpiret) ==
  [f \in DOMAIN m \cup {"mpiret"} |-> IF f = "mpiret" THEN mpiret ELSE m[f]]

ErrInit ==
  /\ \E sc \in Scenarios :
       /\ sc.with_ghost /\ ~sc.full_style /\ ~sc.with_faces
       /\ p4est = sc
  /\ pc = [r \in Ranks |-> "p4est_iterate"]
  /\ me = [r \in Ranks |->
             WithMpiret(tnodes_meta_new(p4est, r), sc_MPI_SUCCESS)]
  /\ iterate = [r \in Ranks |->
                  p4est_iterate(p4est.quads, p4est.gfq, me[r].ghosts,
                                p4est.with_ghost, r)]
  /\ net = {}
  /\ allgather = [r \in Ranks |-> -1]

\* post_query_reply: an sc_MPI_Irecv or sc_MPI_Isend reports an error
PostError(r) ==
  /\ Turn(r)
  /\ pc[r] = "post_query_reply"
  /\ \E j \in 1 .. Len(me[r].peers) : me[r].peers[j].bufcount > 0
  /\ me' = [me EXCEPT ![r].mpiret = sc_MPI_ERR_OTHER]
  /\ pc' = [pc EXCEPT ![r] = SC_CHECK_MPI(me'[r].mpiret, "sort_allgather")]
  /\ UNCHANGED << p4est, iterate, net, allgather >>

\* sort_allgather: sc_MPI_Allgather reports an error
AllgatherError(r) ==
  /\ pc[r] = "sc_MPI_Allgather"
  /\ me' = [me EXCEPT ![r].mpiret = sc_MPI_ERR_OTHER]
  /\ pc' = [pc EXCEPT ![r] = SC_CHECK_MPI(me'[r].mpiret, "sort_peers")]
  /\ UNCHANGED << p4est, iterate, net, allgather >>

\* wait_query_reply: sc_MPI_Waitsome reports an error
WaitsomeError(r) ==
  /\ pc[r] = "sc_MPI_Waitsome"
  /\ me' = [me EXCEPT ![r].mpiret = sc_MPI_ERR_OTHER]
  /\ pc' = [pc EXCEPT ![r] = SC_CHECK_MPI(me'[r].mpiret, "sc_MPI_Waitsome")]
  /\ UNCHANGED << p4est, iterate, net, allgather >>

\* wait_query_reply: the sc_MPI_Isend of a reply or the sc_MPI_Irecv for
\* one reports an error, after the loop has handled the requests before it
ReplyError(r) ==
  /\ pc[r] = "sc_MPI_Waitsome"
  /\ \E W \in SUBSET {j \in 0 .. (Len(me[r].peers) - 1) :
                        Completable(me[r], j)} :
     \E k \in 1 .. Cardinality(W) :
       LET waitind == SortedSeq(W)
           received == UNION {IF At(me[r].pereq, j) = "recv"
                                THEN Matching(me[r], j) ELSE {} : j \in W}
           ms == wait_query_reply_loop(
                   [m |-> CompleteAll(me[r], waitind), sent |-> {}],
                   SubSeq(waitind, 1, k - 1))
       IN /\ At(me[r].peers, waitind[k]).done \in {1, 3}
          /\ me' = [me EXCEPT ![r] = [ms.m EXCEPT
                                        !.mpiret = sc_MPI_ERR_OTHER]]
          /\ net' = (net \ received) \cup ms.sent
          /\ pc' = [pc EXCEPT ![r] =
                      SC_CHECK_MPI(me'[r].mpiret, "sc_MPI_Waitsome")]
  /\ UNCHANGED << p4est, iterate, allgather >>

ErrNext ==
  \E r \in Ranks :
    \/ Step(r)
    \/ PostError(r)
    \/ AllgatherError(r)
    \/ WaitsomeError(r)
    \/ ReplyError(r)

ErrSpec == ErrInit /\ [][ErrNext]_vars

\* C14: a rank on which a send, a receive, a wait or the all-gather has
\* reported an error is aborted: it never goes on with the construction and
\* returns no structure, filled or partly filled.
C14_AbortOnError ==
  \A r \in Ranks : me[r].mpiret # sc_MPI_SUCCESS => pc[r] = "sc_abort"

\* a rank is aborted in the drain loop with nonlocal_nodes partly filled
C14_Witness ==
  \E r \in Ranks :
    /\ pc[r] = "sc_abort"
    /\ \E i \in 1 .. Len(me[r].nonlocal_nodes) :
       \E k \in 1 .. Len(me[r].nonlocal_nodes) :
         me[r].nonlocal_nodes[i] = -1 /\ me[r].nonlocal_nodes[k] # -1


(***************************************************************************)
(* Message counts.  A receive is posted for bufcount entries, which MPI    *)
(* takes as the most the buffer holds: a message of fewer entries          *)
(* completes the receive and leaves the rest of the buffer as it was.  The *)
(* count of a completed receive is in its status alone, and sc_MPI_Waitsome*)
(* is called with sc_MPI_STATUSES_IGNORE.  A reply is shortened here (the  *)
(* buffer of a reply holds the query sent; the buffer of a query is not    *)
(* initialized).                                                           *)
(***************************************************************************)
MaxShort == 1

\* the messages in flight whose count is not the bufcount of the sender
Shortened ==
  {msg \in net :
     Len(msg.data)
       # At(me[msg.src].peers, PeerOf(me[msg.src], msg.dst)).bufcount}

ShortCount(r) ==
  \E msg \in net :
    /\ msg.dst = r
    /\ msg.tag = P4EST_COMM_TNODES_REPLY
    /\ Len(msg.data) > 0
    /\ Cardinality(Shortened \cup {msg}) <= MaxShort
    /\ net' = (net \ {msg})
                \cup {[msg EXCEPT !.data = SubSeq(@, 1, Len(@) - 1)]}
    /\ UNCHANGED << p4est, pc, me, iterate, allgather >>

CountInit ==
  \E sc \in Scenarios :
    sc.with_ghost /\ ~sc.full_style /\ ~sc.with_faces /\ Start(sc)

CountNext == \E r \in Ranks : Step(r) \/ ShortCount(r)

CountSpec == CountInit /\ [][CountNext]_vars

\* rank r completes the receive of a message whose count is not the
\* bufcount of the peer
CountMismatch(r) ==
  /\ pc[r] = "sc_MPI_Waitsome"
  /\ me'[r] # me[r]
  /\ \E msg \in net \ net' :
       /\ msg.dst = r
       /\ Len(msg.data) # At(me[r].peers, PeerOf(me[r], msg.src)).bufcount

\* C15: the completion of a query or reply whose number of entries is not
\* the bufcount of the receiving peer aborts the rank; the buffer is not
\* processed.
C15_AsStated ==
  [][\A r \in Ranks : CountMismatch(r) => pc'[r] = "sc_abort"]_vars


(***************************************************************************)
(* The call without a ghost layer (ghost == NULL).                         *)
(***************************************************************************)
\* C16: without a ghost layer, on every rank and at every point of the
\* run, every candidate has the local contributor only, no peer exists, no
\* request is posted and no message is in flight, num_shared is 0 and the
\* sharers array is empty; on return num_local_nodes equals owned_count.
C16_NoGhost ==
  ~p4est.with_ghost =>
    /\ net = {}
    /\ \A r \in Ranks :
         LET m == me[r]
         IN /\ \A i \in 1 .. Len(m.construct) :
                 /\ Len(m.construct[i].contr) = 1
                 /\ m.construct[i].contr[1].rank = r
            /\ m.peers = << >>
            /\ m.pereq = << >>
            /\ m.num_shared = 0
            /\ m.num_all_shared = 0
            /\ m.sharers = << >>
            /\ Returned(r) =>
                 /\ m.num_local_nodes = m.owned_count
                 /\ m.owned_count = Len(m.construct)
                 /\ m.nonlocal_nodes = << >>

\* all ranks have returned from a call without a ghost layer in which two
\* ranks hold leaves, so that faces and corners with a remote side have
\* been traversed
C16_Witness ==
  /\ ~p4est.with_ghost
  /\ AllReturned
  /\ \E r \in Ranks : \E q \in Ranks :
       /\ r # q
       /\ me[r].num_local_elements > 0
       /\ me[q].num_local_elements > 0
       /\ me[r].owned_count > 0


(***************************************************************************)
(* The order of the calls of p4est_tnodes_new on a rank.                   *)
(***************************************************************************)
\* post_query_reply has posted the requests of rank r (pereq is resized)
Posted(r) == me[r].pereq # << >>

\* rank r knows the global offsets: sort_allgather has scanned the counts
OffsetKnown(r) == Len(me[r].goffset) = NumRanks + 1

\* C17 as stated: a rank that has posted its receives and sent its queries
\* knows its global offset.
C17_AsStated == \A r \in Ranks : Posted(r) => OffsetKnown(r)

\* C17: the calls run in the order traverse, elect, post queries and
\* receives, all-gather of owned counts, drain, finalize.  A rank posts
\* nothing and contributes no count before the election is over; it has
\* posted its requests when it enters the all-gather, and does not know the
\* offsets then; it knows them from the return of the all-gather on, so
\* before it sends a reply or processes one.
C17_PostBeforeGather ==
  \A r \in Ranks :
    /\ pc[r] \in {"p4est_iterate", "post_query_reply"} =>
         /\ ~Posted(r)
         /\ allgather[r] = -1
         /\ \A msg \in net : msg.src # r
    /\ pc[r] \in {"sort_allgather", "sc_MPI_Allgather"} =>
         /\ me[r].ghost /\ me[r].peers # << >> => Posted(r)
         /\ (allgather[r] # -1) = (pc[r] = "sc_MPI_Allgather")
    /\ ~Gathered(r) =>
         /\ ~OffsetKnown(r)
         /\ \A msg \in net :
              msg.src = r => msg.tag = P4EST_COMM_TNODES_QUERY
         /\ \A j \in 1 .. Len(me[r].peers) : me[r].peers[j].done \in {0, 1, 3}
    /\ Gathered(r) =>
         /\ OffsetKnown(r)
         /\ me[r].global_offset = At(me[r].goffset, r)

\* a rank has sent a query and has not entered the all-gather yet
C17_Witness ==
  \E r \in Ranks :
    /\ pc[r] = "sort_allgather"
    /\ Posted(r)
    /\ ~OffsetKnown(r)
    /\ \E msg \in net : msg.src = r /\ msg.tag = P4EST_COMM_TNODES_QUERY


(***************************************************************************)
(* The call on a communicator of one rank: rank 0 holds the whole forest,  *)
(* the unit square as one leaf or refined once.                            *)
(***************************************************************************)
UnitForests == {<< RootQuad >>, LeavesOf({})}

UnitInit ==
  /\ \E quads \in UnitForests :
     \E fs \in BOOLEAN : \E wf \in BOOLEAN : \E wg \in BOOLEAN :
       p4est = [quads |-> quads,
                gfq |-> [i \in 1 .. (NumRanks + 1) |->
                           IF i = 1 THEN 0 ELSE Len(quads)],
                full_style |-> fs, with_faces |-> wf, with_ghost |-> wg]
  /\ pc = [r \in Ranks |-> IF r = 0 THEN "p4est_iterate" ELSE "idle"]
  /\ me = [r \in Ranks |->
             [tnodes_meta_new(p4est, r) EXCEPT !.mpisize = 1,
                                               !.proc_peer = Fill(1, 0)]]
  /\ iterate = [r \in Ranks |->
                  IF r = 0
                    THEN p4est_iterate(p4est.quads, p4est.gfq, << >>,
                                       p4est.with_ghost, 0)
                    ELSE << >>]
  /\ net = {}
  /\ allgather = [r \in Ranks |-> -1]

\* sc_MPI_Allgather on one rank returns the rank's own count
UnitAllgatherReturn(r) ==
  /\ pc[r] = "sc_MPI_Allgather"
  /\ me' = [me EXCEPT ![r] = sort_allgather_scan(@, << allgather[r] >>)]
  /\ pc' = [pc EXCEPT ![r] = "sort_peers"]
  /\ UNCHANGED << p4est, iterate, net, allgather >>

UnitNext ==
  \/ IterVolume(0)
  \/ IterFace(0)
  \/ IterCorner(0)
  \/ OwnedQueryReply(0)
  \/ PostQueryReply(0)
  \/ SortAllgather(0)
  \/ UnitAllgatherReturn(0)
  \/ SortPeers(0)
  \/ WaitQueryReply(0)
  \/ AssignElementNodes(0)
  \/ PopulateSharers(0)

UnitSpec == UnitInit /\ [][UnitNext]_vars

\* the call on the single unit element, half style, no face nodes
UnitHalf ==
  /\ p4est.quads = << RootQuad >>
  /\ ~p4est.full_style
  /\ ~p4est.with_faces

\* C18 as stated: the single unit element in half style without face
\* nodes gives owned_count 4 and configuration[0] = 0.
C18_AsStated ==
  UnitHalf /\ Returned(0) =>
    /\ me[0].owned_count = 4
    /\ At(me[0].configuration, 0) = 0

\* C18: the single unit element is of level 0 and is split in full style
\* whatever full_style says: its center is a node, owned_count is 5 (four
\* corners and the center) and configuration[0] is 32; nothing is shared.
C18_UnitElement ==
  UnitHalf /\ Returned(0) =>
    /\ me[0].owned_count = 5
    /\ me[0].num_local_nodes = 5
    /\ me[0].num_shared = 0
    /\ At(me[0].configuration, 0) = 32
    /\ At(me[0].element_nodes, n_center) # -1
    /\ me[0].global_owned_count = << 5 >>

\* the call on the single unit element in half style has returned
C18_Witness == UnitHalf /\ Returned(0) /\ me[0].num_local_elements = 1


(***************************************************************************)
(* The states of a peer (field done).                                      *)
(***************************************************************************)
\* the changes of done a peer of rank q may make on rank r
DoneSteps(r, q, bufcount) ==
  IF bufcount = 0 THEN {}
  ELSE IF q > r THEN {<< 0, 1 >>, << 1, 2 >>, << 2, 0 >>}
  ELSE {<< 0, 3 >>, << 3, 4 >>, << 4, 0 >>}

\* peer j of rank r changes done in the step, in one of the ways allowed,
\* and with the request and the messages the change stands for
DoneStep(r, j) ==
  LET peer == me[r].peers[j]
      after == me'[r].peers[j]
      query == {msg \in net : /\ msg.src = peer.rank /\ msg.dst = r
                              /\ msg.tag = P4EST_COMM_TNODES_QUERY}
      reply == {msg \in net : /\ msg.src = peer.rank /\ msg.dst = r
                              /\ msg.tag = P4EST_COMM_TNODES_REPLY}
      replied == {msg \in net' \ net :
                    /\ msg.src = r /\ msg.dst = peer.rank
                    /\ msg.tag = P4EST_COMM_TNODES_REPLY}
  IN /\ after.rank = peer.rank
     /\ << peer.done, after.done >>
          \in DoneSteps(r, peer.rank, peer.bufcount)
     /\ peer.done = 0 => pc[r] = "post_query_reply"
     /\ peer.done # 0 => pc[r] = "sc_MPI_Waitsome"
     /\ peer.done = 1 =>
          /\ me[r].pereq[j] = "recv" /\ me'[r].pereq[j] = "send"
          /\ query # {} /\ query \cap net' = {}
          /\ replied # {}
     /\ peer.done = 2 => me[r].pereq[j] = "send" /\ me'[r].pereq[j] = "null"
     /\ peer.done = 3 =>
          /\ me[r].pereq[j] = "send" /\ me'[r].pereq[j] = "recv"
     /\ peer.done = 4 =>
          /\ me[r].pereq[j] = "recv" /\ me'[r].pereq[j] = "null"
          /\ reply # {} /\ reply \cap net' = {}

\* C19: the field done of a peer changes along 0 -> 1 -> 2 -> 0 for a peer
\* of higher rank and along 0 -> 3 -> 4 -> 0 for a peer of lower rank, both
\* with bufcount > 0, and in no other way: it leaves 0 in post_query_reply
\* alone, the reply is sent in the step that completes the receive of the
\* query, and the receive of the reply is posted in the step that completes
\* the send of the query.
C19_DoneTransitions ==
  [][\A r \in Ranks :
       \A j \in 1 .. Len(me[r].peers) :
         /\ j <= Len(me'[r].peers)
         /\ me'[r].peers[j].done # me[r].peers[j].done => DoneStep(r, j)]_vars

\* a rank in the drain has sent a reply to a peer of higher rank and waits
\* for the reply of a peer of lower rank
C19_Witness ==
  \E r \in Ranks :
    /\ pc[r] = "sc_MPI_Waitsome"
    /\ \E j \in 1 .. Len(me[r].peers) : \E k \in 1 .. Len(me[r].peers) :
         /\ me[r].peers[j].rank > r /\ me[r].peers[j].done = 2
         /\ me[r].peers[k].rank < r /\ me[r].peers[k].done = 4


(***************************************************************************)
(* The messages of a pair of ranks.                                        *)
(***************************************************************************)
\* the messages from src to dst under a tag in a set of messages
Between(msgs, src, dst, tag) ==
  {msg \in msgs : msg.src = src /\ msg.dst = dst /\ msg.tag = tag}

\* the field done of the peer of rank q on rank r, before and after the
\* step; << 0, 0 >> when r has no such peer
DoneOf(r, q) ==
  IF At(me[r].proc_peer, q) = 0 THEN << 0, 0 >>
  ELSE << At(me[r].peers, PeerOf(me[r], q)).done,
          At(me'[r].peers, PeerOf(me[r], q)).done >>

\* what a step does to the messages between a rank p and a rank q above it
PairStep(p, q) ==
  LET sent == net' \ net
      received == net \ net'
  IN \* no query from p to q, no reply from q to p
     /\ Between(net', p, q, P4EST_COMM_TNODES_QUERY) = {}
     /\ Between(net', q, p, P4EST_COMM_TNODES_REPLY) = {}
     \* at most one query and one reply at a time
     /\ Cardinality(Between(net', q, p, P4EST_COMM_TNODES_QUERY)) <= 1
     /\ Cardinality(Between(net', p, q, P4EST_COMM_TNODES_REPLY)) <= 1
     \* the query is sent in the one step that posts the requests of q
     /\ (Between(sent, q, p, P4EST_COMM_TNODES_QUERY) # {})
          = (DoneOf(q, p) = << 0, 3 >>)
     /\ DoneOf(q, p) = << 0, 3 >> =>
          pc[q] = "post_query_reply" /\ pc'[q] = "sort_allgather"
     \* p receives it and sends the reply in the same step
     /\ (Between(received, q, p, P4EST_COMM_TNODES_QUERY) # {})
          = (DoneOf(p, q) = << 1, 2 >>)
     /\ (Between(sent, p, q, P4EST_COMM_TNODES_REPLY) # {})
          = (DoneOf(p, q) = << 1, 2 >>)
     \* q receives the reply in the step that ends its exchange with p
     /\ (Between(received, p, q, P4EST_COMM_TNODES_REPLY) # {})
          = (DoneOf(q, p) = << 4, 0 >>)
     \* the exchange of a pair is entered once
     /\ DoneOf(p, q)[1] = 0 /\ DoneOf(p, q)[2] # 0 =>
          pc[p] = "post_query_reply" /\ pc'[p] = "sort_allgather"

\* C20: between a rank p and a rank q > p, one query travels from q to p
\* and one reply from p to q: the query is sent when q posts its requests,
\* which it does once; p sends the reply in the step in which its receive
\* of the query completes; q receives the reply as the last step of its
\* exchange with p.  No query travels from p to q and no reply from q to p.
C20_OneQueryOneReply ==
  [][/\ \A p \in Ranks : \A q \in Ranks : p < q => PairStep(p, q)
     /\ \A r \in Ranks :
          pc'[r] = "post_query_reply" =>
            pc[r] \in {"p4est_iterate", "post_query_reply"}
     /\ \A msg \in net' : msg.src # msg.dst]_vars

\* the reply of p is in flight to q, which has posted the receive for it
C20_Witness ==
  \E p \in Ranks : \E q \in Ranks :
    /\ p < q
    /\ Between(net, p, q, P4EST_COMM_TNODES_REPLY) # {}
    /\ At(me[p].proc_peer, q) # 0
    /\ At(me[p].peers, PeerOf(me[p], q)).done = 2
    /\ At(me[q].proc_peer, p) # 0
    /\ At(me[q].peers, PeerOf(me[q], p)).done = 4


(***************************************************************************)
(* Passive peers.  Three trees in the shape of an L, each one leaf of      *)
(* level 0 on a rank of its own: the trees of ranks 1 and 2 meet in one    *)
(* corner alone, which the tree of rank 0 touches as well.                 *)
(***************************************************************************)
LShape ==
  << [x |-> 0, y |-> 0, len |-> 2, level |-> 0],
     [x |-> 2, y |-> 0, len |-> 2, level |-> 0],
     [x |-> 0, y |-> 2, len |-> 2, level |-> 0] >>

PassiveInit ==
  \E fs \in BOOLEAN : \E wf \in BOOLEAN :
    Start([quads |-> LShape, gfq |-> << 0, 1, 2, 3 >>,
           full_style |-> fs, with_faces |-> wf, with_ghost |-> TRUE])

PassiveSpec == PassiveInit /\ [][Next]_vars

\* the election of rank r is over
Elect(r) == pc[r] # "p4est_iterate"

\* the peers of rank r that are purely passive
PassivePeers(r) ==
  {j \in 1 .. Len(me[r].peers) : me[r].peers[j].bufcount = 0}

\* C21: a peer whose bufcount is 0 after the election is passive; no send
\* or receive is posted for it and no message travels from the rank to it,
\* its request is null, it is counted in emptypeers and not in the number
\* of peers the drain waits for, and its field done is 0 throughout.
C21_PassivePeer ==
  \A r \in Ranks :
    Elect(r) =>
      /\ \A j \in PassivePeers(r) :
           /\ me[r].peers[j].passive > 0
           /\ me[r].peers[j].done = 0
           /\ me[r].peers[j].querypos = << >>
           /\ Posted(r) => me[r].pereq[j] = "null"
           /\ \A msg \in net :
                ~(msg.src = r /\ msg.dst = me[r].peers[j].rank)
      /\ pc[r] \notin {"post_query_reply"} =>
           me[r].emptypeers = Cardinality(PassivePeers(r))
      /\ pc[r] = "sc_MPI_Waitsome" =>
           me[r].nwtotal
             = Cardinality({j \in 1 .. Len(me[r].peers) :
                              /\ me[r].peers[j].bufcount > 0
                              /\ \/ me[r].peers[j].done # 0
                                 \/ me[r].pereq[j] # "null"})

\* a rank waits in the drain with a purely passive peer next to an active
\* one
C21_Witness ==
  \E r \in Ranks :
    /\ pc[r] = "sc_MPI_Waitsome"
    /\ PassivePeers(r) # {}
    /\ me[r].nwtotal > 0


(***************************************************************************)
(* The pairing of the entries of a query, its reply and sharedno.          *)
(***************************************************************************)
\* the number among its owned nodes that rank p has given the node at
\* point pt
OwnedNumber(p, pt) ==
  me[p].construct[CHOOSE i \in OwnedBy(p) :
                    CnodePoint(me[p].construct[i]) = pt].runid

\* entry i of the exchange of rank q with its peer (index j) of lower rank
PairedEntry(q, j, i) ==
  LET peer == me[q].peers[j]
      p == peer.rank
      cand == At(me[q].construct, peer.sharedno[i])
      owner == OwnerOf(cand)
      epos == owner.le * me[q].vnodes + owner.nodene
      asked == ~Posted(q) \/ peer.done \in {3, 4}
  IN /\ owner.rank = p
     /\ ElementPoint(p, owner.le, owner.nodene) = CnodePoint(cand)
     /\ asked => peer.querypos[i] = epos
     /\ \A msg \in Between(net, q, p, P4EST_COMM_TNODES_QUERY) :
          msg.data[i] = epos
     /\ \A msg \in Between(net, p, q, P4EST_COMM_TNODES_REPLY) :
          msg.data[i] = OwnedNumber(p, CnodePoint(cand))
     /\ ~asked =>
          /\ peer.querypos[i] = OwnedNumber(p, CnodePoint(cand))
          /\ At(me[q].nonlocal_nodes, cand.runid - me[q].num_owned)
               = At(me[q].goffset, p) + peer.querypos[i]

\* C22: on the querying rank entry i of querypos is the position of
\* candidate sharedno[i] at its owner, the query carries it as entry i, the
\* reply carries the owner's number of that candidate as entry i, and on
\* receipt entry i is stored as the number of candidate sharedno[i].
C22_PositionalPairing ==
  \A q \in Ranks :
    Elect(q) =>
      \A j \in 1 .. Len(me[q].peers) :
        LET peer == me[q].peers[j]
        IN peer.rank < q /\ peer.bufcount > 0 =>
             /\ Len(peer.sharedno) = peer.bufcount
             /\ Len(peer.querypos) = peer.bufcount
             /\ \A msg \in Between(net, q, peer.rank,
                                    P4EST_COMM_TNODES_QUERY)
                          \cup Between(net, peer.rank, q,
                                       P4EST_COMM_TNODES_REPLY) :
                  Len(msg.data) = peer.bufcount
             /\ \A i \in 1 .. peer.bufcount : PairedEntry(q, j, i)

\* a rank has stored the reply to a query of two entries or more whose
\* answers differ from the positions asked
C22_Witness ==
  \E q \in Ranks : \E j \in 1 .. Len(me[q].peers) :
    LET peer == me[q].peers[j]
    IN /\ Posted(q)
       /\ peer.rank < q
       /\ peer.bufcount >= 2
       /\ peer.done = 0
       /\ peer.querypos[1] # peer.querypos[2]


(***************************************************************************)
(* The sizes of the buffers of a pair of ranks.                            *)
(***************************************************************************)
\* the bufcount rank r holds for rank q, 0 when r has no peer for q
Bufcount(r, q) ==
  IF At(me[r].proc_peer, q) = 0 THEN 0
  ELSE At(me[r].peers, PeerOf(me[r], q)).bufcount

\* the candidates of rank r with a contributor of r itself and one of q
Common(r, q) ==
  {i \in Cnodes(r) : {r, q} \subseteq ContrRanks(me[r].construct[i])}

\* ranks p and q see the same contributor ranks for the nodes both
\* contribute to
SameView(p, q) ==
  /\ {CnodePoint(me[p].construct[i]) : i \in Common(p, q)}
       = {CnodePoint(me[q].construct[k]) : k \in Common(q, p)}
  /\ \A i \in Common(p, q) : \A k \in Common(q, p) :
       CnodePoint(me[p].construct[i]) = CnodePoint(me[q].construct[k]) =>
         ContrRanks(me[p].construct[i]) = ContrRanks(me[q].construct[k])

\* the buffer of the peer of rank q on rank r has bufcount entries
\* whenever a request is posted for it
BufferSized(r, q) ==
  At(me[r].proc_peer, q) # 0 =>
    LET peer == At(me[r].peers, PeerOf(me[r], q))
    IN /\ peer.done # 0 => Len(peer.querypos) = peer.bufcount
       /\ \A msg \in net :
            msg.src = r /\ msg.dst = q => Len(msg.data) = peer.bufcount

\* C23: for ranks p < q past the election that see the same contributor
\* ranks for their common nodes, the bufcount p holds for q is the number
\* of nodes p owns with q as contributor and equals the bufcount q holds
\* for p, the number of nodes owned by p that q contributes to; every
\* buffer posted and every message of the pair has that length.
C23_BufcountSymmetric ==
  \A p \in Ranks : \A q \in Ranks :
    p < q /\ Elect(p) /\ Elect(q) /\ SameView(p, q) =>
      /\ Bufcount(p, q)
           = Cardinality({i \in Common(p, q) :
                            OwnerOf(me[p].construct[i]).rank = p})
      /\ Bufcount(q, p)
           = Cardinality({k \in Common(q, p) :
                            OwnerOf(me[q].construct[k]).rank = p})
      /\ Bufcount(p, q) = Bufcount(q, p)
      /\ BufferSized(p, q)
      /\ BufferSized(q, p)

\* two ranks hold buffers of two entries or more for each other, and the
\* query is in flight
C23_Witness ==
  \E p \in Ranks : \E q \in Ranks :
    /\ p < q /\ Elect(p) /\ Elect(q) /\ SameView(p, q)
    /\ Bufcount(p, q) >= 2
    /\ Between(net, q, p, P4EST_COMM_TNODES_QUERY) # {}


(***************************************************************************)
(* The state of the exchange when the finalization starts.                 *)
(***************************************************************************)
\* C24: from the start of assign_element_nodes on, every peer of the rank
\* has done = 0, every request of the rank is null, the drain waits for no
\* peer, and no message addressed to the rank is in flight.
C24_DoneBeforeFinalize ==
  \A r \in Ranks :
    Exchanged(r) =>
      /\ \A j \in 1 .. Len(me[r].peers) : me[r].peers[j].done = 0
      /\ \A j \in 1 .. Len(me[r].pereq) : me[r].pereq[j] = "null"
      /\ me[r].nwtotal = 0
      /\ \A msg \in net : msg.dst # r

\* a rank starts the finalization after an exchange with two peers, while
\* another rank is still in the drain
C24_Witness ==
  \E r \in Ranks : \E q \in Ranks :
    /\ pc[r] = "assign_element_nodes"
    /\ Cardinality({j \in 1 .. Len(me[r].peers) :
                      me[r].peers[j].bufcount > 0}) >= 2
    /\ pc[q] = "sc_MPI_Waitsome"


(***************************************************************************)
(* The requests of a peer.                                                 *)
(***************************************************************************)
\* the request that is outstanding for a peer in state done
RequestOf(done) ==
  CASE done \in {1, 4} -> "recv"
    [] done \in {2, 3} -> "send"
    [] OTHER -> "null"

\* the completions sc_MPI_Waitsome has yet to report for a peer
Remaining(done) ==
  CASE done \in {1, 3} -> 2
    [] done \in {2, 4} -> 1
    [] OTHER -> 0

\* the peers of rank r the drain has yet to count as finished
Unfinished(r) ==
  {j \in 1 .. Len(me[r].peers) : me[r].peers[j].done # 0}

\* a step of rank r in the exchange: a request that changes was
\* outstanding and could complete, one completion is taken off the peer,
\* and nwtotal goes down by the number of peers that are finished
RequestStep(r) ==
  /\ \A j \in 1 .. Len(me[r].peers) :
       LET peer == me[r].peers[j]
           after == me'[r].peers[j]
       IN /\ pc[r] = "sc_MPI_Waitsome" /\ after # peer =>
               /\ me[r].pereq[j] # "null"
               /\ Completable(me[r], j - 1)
               /\ Remaining(after.done) = Remaining(peer.done) - 1
          /\ pc[r] = "post_query_reply" =>
               /\ me[r].pereq = << >>
               /\ Remaining(after.done) = IF peer.bufcount > 0 THEN 2 ELSE 0
  /\ pc[r] = "sc_MPI_Waitsome" =>
       me[r].nwtotal - me'[r].nwtotal
         = Cardinality({j \in Unfinished(r) : me'[r].peers[j].done = 0})

\* C25: a peer has one request slot, which holds the one request that is
\* outstanding for it: none before post_query_reply and after its second
\* completion, a receive in states 1 and 4, a send in states 2 and 3.  A
\* new request is posted for a peer in the step that completes the one
\* before.  A peer with bufcount > 0 is reported complete twice, and
\* nwtotal is decremented for it once, with the second completion.
C25_OneRequest ==
  /\ [](\A r \in Ranks :
          /\ Posted(r) =>
               /\ Len(me[r].pereq) = Len(me[r].peers)
               /\ \A j \in 1 .. Len(me[r].peers) :
                    me[r].pereq[j] = RequestOf(me[r].peers[j].done)
          /\ pc[r] = "sc_MPI_Waitsome" =>
               me[r].nwtotal = Cardinality(Unfinished(r))
          /\ Exchanged(r) => Unfinished(r) = {})
  /\ [][\A r \in Ranks :
          Elect(r) /\ me'[r] # me[r] /\ ~Exchanged(r) => RequestStep(r)]_vars

\* a rank in the drain has a peer with one completion reported and a
\* peer with both
C25_Witness ==
  \E r \in Ranks :
    /\ pc[r] = "sc_MPI_Waitsome"
    /\ \E j \in 1 .. Len(me[r].peers) : \E k \in 1 .. Len(me[r].peers) :
         /\ me[r].peers[j].bufcount > 0 /\ me[r].peers[j].done = 0
         /\ me[r].peers[k].done \in {2, 4}


(***************************************************************************)
(* The contributors of a candidate under node_register.                    *)
(***************************************************************************)
\* (le1, n1) comes before (le2, n2), or is the same pair
LexLeq(le1, n1, le2, n2) == le1 < le2 \/ (le1 = le2 /\ n1 <= n2)

\* the positions of local elements of rank r that refer to candidate lni
LocalPairs(r, lni) ==
  {pr \in (0 .. (me[r].num_local_elements - 1)) \X (0 .. (me[r].vnodes - 1)) :
     At(me[r].element_nodes, pr[1] * me[r].vnodes + pr[2]) = lni}

\* what the registration of (rank, le, nodene) makes of a candidate
Registered(cnode, rank, le, nodene) ==
  LET after == cnode_add(cnode, rank, le, nodene)
      found == {zz \in 1 .. Len(cnode.contr) : cnode.contr[zz].rank = rank}
  IN IF found = {}
       THEN after.contr
              = Append(cnode.contr,
                       [nodene |-> nodene, rank |-> rank, le |-> le])
     ELSE /\ Len(after.contr) = Len(cnode.contr)
          /\ after.owner = cnode.owner
          /\ \A zz \in 1 .. Len(cnode.contr) :
               LET old == cnode.contr[zz]
                   new == after.contr[zz]
               IN IF zz \in found
                    THEN /\ new.rank = rank
                         /\ << new.le, new.nodene >>
                              = IF LexLeq(old.le, old.nodene, le, nodene)
                                  THEN << old.le, old.nodene >>
                                  ELSE << le, nodene >>
                    ELSE new = old

\* C26: a candidate reached by any sequence of node_register calls has at
\* most one contributor per rank; the entry of the local rank is the
\* smallest (element, position) pair registered for it; and any further
\* registration either appends an entry for a rank not yet present or
\* leaves the number of contributors, the owner and the other entries as
\* they are and keeps the smaller of the two pairs for its rank.
C26_SmallestPairPerRank ==
  \A r \in Ranks : \A i \in Cnodes(r) :
    LET cnode == me[r].construct[i]
    IN /\ \A zz \in 1 .. Len(cnode.contr) : \A zy \in 1 .. Len(cnode.contr) :
            cnode.contr[zz].rank = cnode.contr[zy].rank => zz = zy
       /\ \A zz \in 1 .. Len(cnode.contr) :
            cnode.contr[zz].rank = r =>
              /\ << cnode.contr[zz].le, cnode.contr[zz].nodene >>
                   \in LocalPairs(r, i - 1)
              /\ \A pr \in LocalPairs(r, i - 1) :
                   LexLeq(cnode.contr[zz].le, cnode.contr[zz].nodene,
                          pr[1], pr[2])
       /\ \A rank \in Ranks :
          \A le \in 0 .. (NumLocal(p4est.gfq, rank) - 1) :
          \A nodene \in Range(n_ccorn) :
            Registered(cnode, rank, le, nodene)

\* a candidate with contributors of all ranks on which the local rank has
\* registered two pairs and holds the one registered second
C26_Witness ==
  \E r \in Ranks : \E i \in Cnodes(r) :
    LET cnode == me[r].construct[i]
    IN /\ Len(cnode.contr) = NumRanks
       /\ Cardinality(LocalPairs(r, i - 1)) >= 2
       /\ \E zz \in 1 .. Len(cnode.contr) :
            /\ cnode.contr[zz].rank = r
            /\ zz < Len(cnode.contr)


(***************************************************************************)
(* The place of the owner among the contributors.                          *)
(***************************************************************************)
\* the candidates of rank r whose owner is not the first contributor
OwnerNotFirst(r) == {i \in Cnodes(r) : me[r].construct[i].owner # 0}

\* the statement that the owner is the first contributor whatever the order
\* of the registrations
C27_AsStated == \A r \in Ranks : OwnerNotFirst(r) = {}

\* C27: the owner of every candidate is the first entry of its contributor
\* list exactly when the first entry has the smallest rank; a registration
\* of a rank smaller than all ranks present makes the appended (last) entry
\* the owner, and a registration of any other new rank leaves the owner
\* where it is.
C27_OwnerWhereAppended ==
  \A r \in Ranks : \A i \in Cnodes(r) :
    LET cnode == me[r].construct[i]
    IN /\ cnode.owner = 0
            <=> \A zz \in 1 .. Len(cnode.contr) :
                  cnode.contr[1].rank <= cnode.contr[zz].rank
       /\ \A rank \in Ranks \ ContrRanks(cnode) :
          \A le \in 0 .. (NumLocal(p4est.gfq, rank) - 1) :
          \A nodene \in Range(n_ccorn) :
            cnode_add(cnode, rank, le, nodene).owner
              = IF rank < OwnerOf(cnode).rank THEN Len(cnode.contr)
                                             ELSE cnode.owner

\* a candidate on which rank 2 registered first and rank 0 last: the owner
\* is its last contributor
C27_Witness ==
  \E r \in Ranks : \E i \in Cnodes(r) :
    LET cnode == me[r].construct[i]
    IN /\ Len(cnode.contr) = 3
       /\ cnode.contr[1].rank = 2
       /\ cnode.contr[3].rank = 0
       /\ cnode.owner = 2


(***************************************************************************)
(* The numbers of the owned nodes.                                         *)
(***************************************************************************)
\* rank r has sorted its owned nodes
Sorted(r) ==
  pc[r] \notin {"p4est_iterate", "post_query_reply", "sort_allgather"}

\* (owner.le, owner.position) of candidate i of rank r
OwnerPair(r, i) ==
  << OwnerOf(me[r].construct[i]).le, OwnerOf(me[r].construct[i]).nodene >>

PairLess(p1, p2) == p1[1] < p2[1] \/ (p1[1] = p2[1] /\ p1[2] < p2[2])

\* C28: once a rank has sorted in sort_allgather, the runids of its owned
\* candidates are exactly 0 .. num_owned - 1, each taken once, and for two
\* owned candidates the runid of one is smaller exactly when its
\* (owner.le, owner.position) is lexicographically smaller; no two owned
\* candidates have the same pair.
C28_OwnedNumbering ==
  \A r \in Ranks :
    Sorted(r) =>
      \A owned \in {OwnedBy(r)} :
      \A runid \in {[i \in owned |-> me[r].construct[i].runid]} :
      \A pair \in {[i \in owned |-> OwnerPair(r, i)]} :
        /\ Cardinality(owned) = me[r].num_owned
        /\ {runid[i] : i \in owned} = 0 .. (me[r].num_owned - 1)
        /\ \A a \in owned : \A b \in owned :
             /\ runid[a] < runid[b] <=> PairLess(pair[a], pair[b])
             /\ pair[a] = pair[b] => a = b

\* a rank that has sorted owns candidates of two elements, and the owned
\* candidate it created first is not the one numbered 0
C28_Witness ==
  \E r \in Ranks :
    /\ Sorted(r)
    /\ \E a \in OwnedBy(r) : \E b \in OwnedBy(r) :
         /\ OwnerPair(r, a)[1] # OwnerPair(r, b)[1]
         /\ a < b
         /\ me[r].construct[b].runid < me[r].construct[a].runid


(***************************************************************************)
(* Candidates without a local contributor.                                 *)
(***************************************************************************)
\* the candidates of rank r that no local element refers to
RemoteOnly(r) == Cnodes(r) \ LocalTo(r)

\* the peers of rank r whose remosort holds candidate i
PeersHolding(r, i) ==
  {j \in 1 .. Len(me[r].peers) : (i - 1) \in Range(me[r].peers[j].remosort)}

\* C29: from the election on, a candidate without local contributor has
\* runid -1 and is in neither ownsort nor any remosort, so that num_owned
\* and num_shared count only the candidates with a local contributor and
\* every sharer entry is a local node number below num_owned + num_shared;
\* a candidate with a local contributor and a remote owner is in the
\* remosort of exactly one peer, once, and that peer has the owner's rank.
\* Right after the election the queries of a peer are as many as the
\* candidates with local contributor it owns, and its passive count is the
\* number of candidates with local contributor to which it contributes
\* without being owner.
C29_RemoteOnlyDropped ==
  \A r \in Ranks :
    Elect(r) =>
      \A local \in {LocalTo(r)} : \A owned \in {OwnedBy(r)} :
        /\ \A i \in Cnodes(r) \ local :
             /\ me[r].construct[i].runid = -1
             /\ (i - 1) \notin Range(me[r].ownsort)
             /\ PeersHolding(r, i) = {}
        /\ owned \subseteq local
        /\ me[r].num_owned = Cardinality(owned)
        /\ me[r].num_shared = Cardinality(local \ owned)
        /\ \A si \in 1 .. Len(me[r].sharers) :
             \A lni \in Range(me[r].sharers[si].shared_nodes) :
               lni \in 0 .. (me[r].num_owned + me[r].num_shared - 1)
        /\ \A i \in local \ owned :
             /\ Cardinality(PeersHolding(r, i)) = 1
             /\ \A j \in PeersHolding(r, i) :
                  /\ me[r].peers[j].rank = OwnerOf(me[r].construct[i]).rank
                  /\ Cardinality({k \in 1 .. Len(me[r].peers[j].remosort) :
                                    me[r].peers[j].remosort[k] = i - 1}) = 1
        /\ pc[r] = "post_query_reply" =>
             \A j \in 1 .. Len(me[r].peers) :
               LET q == me[r].peers[j].rank
               IN /\ q < r =>
                       Len(me[r].peers[j].querypos)
                         = Cardinality({i \in local \ owned :
                              OwnerOf(me[r].construct[i]).rank = q})
                  /\ me[r].peers[j].passive
                       = Cardinality({i \in local \ owned :
                            /\ q \in ContrRanks(me[r].construct[i])
                            /\ q # OwnerOf(me[r].construct[i]).rank})

\* a rank past the election holds a candidate without local contributor
\* whose contributor of higher rank is a peer, and a candidate with local
\* contributor and remote owner
C29_Witness ==
  \E r \in Ranks :
    /\ pc[r] = "post_query_reply"
    /\ LocalTo(r) \ OwnedBy(r) # {}
    /\ \E i \in RemoteOnly(r) : \E j \in 1 .. Len(me[r].peers) :
         /\ me[r].peers[j].rank \in ContrRanks(me[r].construct[i])
         /\ me[r].peers[j].rank # OwnerOf(me[r].construct[i]).rank


(***************************************************************************)
(* The center node in the volume callback.                                 *)
(***************************************************************************)
\* the step is the volume callback of the next local element of rank r
VolumeEvent(r) ==
  /\ pc[r] = "p4est_iterate"
  /\ iterate[r] # << >>
  /\ Head(iterate[r]).type = "volume"
  /\ me'[r].lenum = me[r].lenum + 1

\* the entry of element le for its center
Center(m, le) == At(m.element_nodes, le * m.vnodes + n_center)

\* the statement that every volume callback registers the center
C30_AsStated ==
  [][\A r \in Ranks :
       VolumeEvent(r) => Center(me'[r], me[r].lenum) # -1]_vars

\* C30: the volume callback of a leaf registers the leaf's center exactly
\* when the style is full, the leaf has level 0 or face nodes are asked
\* for; the center is then a new candidate, a corner node for a full split
\* and a face node (the midpoint of the diagonal) for a half split.  A leaf
\* of level > 0 in half style without face nodes gets no center in its
\* volume callback.
C30_CenterEmitted ==
  [][\A r \in Ranks :
       VolumeEvent(r) =>
         LET le == me[r].lenum
             vi == Head(iterate[r])
             full == p4est.full_style \/ vi.level = 0
             lni == Center(me'[r], le)
         IN /\ Center(me[r], le) = -1
            /\ lni # -1 <=> (full \/ p4est.with_faces)
            /\ lni # -1 =>
                 /\ lni >= Len(me[r].construct)
                 /\ At(me'[r].construct, lni).bcon
                      = IF full THEN P4EST_CONNECT_CORNER
                                ELSE P4EST_CONNECT_FACE]_vars

\* the volume callback of a leaf of level > 0 has run in half style without
\* face nodes, and the leaf has no center
C30_Witness ==
  \E r \in Ranks :
    /\ pc[r] = "p4est_iterate"
    /\ ~p4est.full_style
    /\ ~p4est.with_faces
    /\ me[r].lenum >= 1
    /\ At(me[r].chilev, me[r].lenum - 1) >= 8
    /\ Center(me[r], me[r].lenum - 1) = -1


(***************************************************************************)
(* The nodes of an element that is split in full.                          *)
(***************************************************************************)
\* rank r has finished the traversal and the election and nothing else
Traversed(r) == pc[r] = "post_query_reply"

\* element le of rank r is split in full: bit 5 is set, or a face bit
FullSplit(r, le) == At(me[r].configuration, le) \notin {0, 2 ^ 4}

\* the candidate that position nodene of element le refers to, or -1
Slot(r, le, nodene) == At(me[r].element_nodes, le * me[r].vnodes + nodene)

\* position nodene of element le is a node of codimension bcon
IsNode(r, le, nodene, bcon) ==
  /\ Slot(r, le, nodene) # -1
  /\ At(me[r].construct, Slot(r, le, nodene)).bcon = bcon

\* the statement that the face midpoints of a full split are corner nodes
C31_AsStated ==
  \A r \in Ranks :
    Traversed(r) =>
      \A le \in Elements(r) :
        FullSplit(r, le) =>
          /\ IsNode(r, le, n_center, P4EST_CONNECT_CORNER)
          /\ \A f \in 0 .. 3 :
               IsNode(r, le, At(n_mface, f), P4EST_CONNECT_CORNER)

\* C31: at the end of the traversal the center of an element that is split
\* in full is a corner node.  The midpoint of its face f (position 5 + f)
\* is a corner node exactly when the face is split (bit f of the
\* configuration); the midpoint of an unsplit face is a face node when face
\* nodes are asked for and no node otherwise.  The positions 9..12 are
\* face nodes of the element when face nodes are asked for.
C31_FullSplitNodes ==
  \A r \in Ranks :
    Traversed(r) =>
      \A le \in Elements(r) :
        FullSplit(r, le) =>
          /\ IsNode(r, le, n_center, P4EST_CONNECT_CORNER)
          /\ \A f \in 0 .. 3 :
               IF Bit(At(me[r].configuration, le), f) = 1
                 THEN IsNode(r, le, At(n_mface, f), P4EST_CONNECT_CORNER)
               ELSE IF p4est.with_faces
                 THEN IsNode(r, le, At(n_mface, f), P4EST_CONNECT_FACE)
               ELSE Slot(r, le, At(n_mface, f)) = -1
          /\ p4est.with_faces =>
               \A j \in 0 .. 3 :
                 IsNode(r, le, At(n_cface, j), P4EST_CONNECT_FACE)

\* an element promoted by a split face, with face nodes: the midpoint of
\* the split face is a corner node and the midpoint of another face is a
\* face node
C31_Witness ==
  \E r \in Ranks :
    /\ Traversed(r)
    /\ p4est.with_faces
    /\ ~p4est.full_style
    /\ \E le \in Elements(r) : \E f \in 0 .. 3 : \E g \in 0 .. 3 :
         /\ At(me[r].configuration, le) \in 1 .. 15
         /\ Bit(At(me[r].configuration, le), f) = 1
         /\ IsNode(r, le, At(n_mface, f), P4EST_CONNECT_CORNER)
         /\ IsNode(r, le, At(n_mface, g), P4EST_CONNECT_FACE)


(***************************************************************************)
(* The large side of a nonconforming face.                                 *)
(***************************************************************************)
\* the step is the face callback of rank 0 for face f of its element, split
\* on the other side
SplitFaceEvent(f) ==
  /\ pc[0] = "iter_face1"
  /\ f \in iterate[0]
  /\ iterate'[0] = iterate[0] \ {f}
  /\ At(me[0].chilev, 0) \div 8 > 0
  /\ me'[0] = iter_face1(me[0], [type |-> "face", orientation |-> 0,
                                 sides |-> ConfSides(me[0], f, 2)])

\* the configuration is one of the two half splits
PureHalf(configuration) == configuration \in {0, 2 ^ 4}

\* C32: a nonconforming face callback that reaches a large local element
\* on face f leaves bits 4 and 5 of its configuration clear and bit f set
\* and the bits of the other faces as they were.  If the configuration was
\* 0 or 16 the element is promoted: with face nodes the candidate in slot 4
\* stays the same candidate with the same contributors and goes from face
\* to corner codimension, without face nodes slot 4 receives a new corner
\* candidate.  Otherwise, after a promotion or in full style, slot 4 and
\* its candidate are left untouched.
C32_Promotion ==
  [][\A f \in 0 .. 3 :
       SplitFaceEvent(f) =>
         LET old == At(me[0].configuration, 0)
             new == At(me'[0].configuration, 0)
             lni == At(me[0].element_nodes, n_center)
             lnj == At(me'[0].element_nodes, n_center)
         IN /\ Bit(new, 4) = 0 /\ Bit(new, 5) = 0
            /\ Bit(new, f) = 1
            /\ \A g \in (0 .. 3) \ {f} : Bit(new, g) = Bit(old, g)
            /\ IF PureHalf(old)
                 THEN IF p4est.with_faces
                        THEN /\ lni # -1
                             /\ lnj = lni
                             /\ At(me[0].construct, lni).bcon
                                  = P4EST_CONNECT_FACE
                             /\ At(me'[0].construct, lni)
                                  = [At(me[0].construct, lni) EXCEPT
                                       !.bcon = P4EST_CONNECT_CORNER]
                        ELSE /\ lni = -1
                             /\ lnj >= Len(me[0].construct)
                             /\ At(me'[0].construct, lnj).bcon
                                  = P4EST_CONNECT_CORNER
               ELSE /\ lni # -1
                    /\ lnj = lni
                    /\ At(me'[0].construct, lni) = At(me[0].construct, lni)
                    /\ At(me[0].construct, lni).bcon
                         = P4EST_CONNECT_CORNER]_vars

\* a half-style element with face nodes that two nonconforming faces have
\* reached: its center is a corner node with its one contributor
C32_Witness ==
  /\ ~p4est.full_style
  /\ p4est.with_faces
  /\ pc[0] = "iter_face1"
  /\ \E f \in 0 .. 3 : \E g \in 0 .. 3 :
       /\ f # g
       /\ Bit(At(me[0].configuration, 0), f) = 1
       /\ Bit(At(me[0].configuration, 0), g) = 1
       /\ IsNode(0, 0, n_center, P4EST_CONNECT_CORNER)
       /\ Len(At(me[0].construct, Slot(0, 0, n_center)).contr) = 1


(***************************************************************************)
(* The writes of the face code.                                            *)
(***************************************************************************)
\* the face code of element le of rank r changes in the step
FaceCodeWritten(r, le) ==
  At(me'[r].face_code, le) # At(me[r].face_code, le)

\* the statement that a face code is written once: every write finds it 0
C33_AsStated ==
  [][\A r \in Ranks : \A le \in Elements(r) :
       FaceCodeWritten(r, le) => At(me[r].face_code, le) = 0]_vars

\* C33: the face code of a local element is written only during the
\* traversal, at most once for each axis: a write sets bit 2 or bit 3,
\* which was clear, leaves the bit of the other axis as it was and leaves
\* the child id in the two low bits.  An element that is the small side of
\* two nonconforming faces is written twice.
C33_OncePerAxis ==
  [][\A r \in Ranks : \A le \in Elements(r) :
       FaceCodeWritten(r, le) =>
         LET old == At(me[r].face_code, le)
             new == At(me'[r].face_code, le)
         IN /\ pc[r] = "p4est_iterate"
            /\ iterate[r] # << >>
            /\ Head(iterate[r]).type = "face"
            /\ \E axis \in 0 .. 1 :
                 /\ Bit(old, P4EST_DIM + axis) = 0
                 /\ Bit(new, P4EST_DIM + axis) = 1
                 /\ Bit(new, P4EST_DIM + 1 - axis)
                      = Bit(old, P4EST_DIM + 1 - axis)
            /\ new % 4 = At(me[r].chilev, le) % 8
            /\ new < 16]_vars

\* an element whose face code has been written for both axes
C33_Witness ==
  \E r \in Ranks : \E le \in Elements(r) :
    /\ Bit(At(me[r].face_code, le), 2) = 1
    /\ Bit(At(me[r].face_code, le), 3) = 1


(***************************************************************************)
(* The final local node numbers.                                           *)
(***************************************************************************)
\* the peers of rank r of lower rank
LowerPeers(r) == {j \in 1 .. Len(me[r].peers) : me[r].peers[j].rank < r}

\* the candidates of rank r with local contributor that rank q owns
SharedFrom(r, q) ==
  {i \in LocalTo(r) : OwnerOf(me[r].construct[i]).rank = q}

\* the sum of bufcount over a set of peers of rank r
RECURSIVE BufcountSum(_, _)
BufcountSum(r, js) ==
  IF js = {} THEN 0
  ELSE LET j == CHOOSE k \in js : TRUE
       IN me[r].peers[j].bufcount + BufcountSum(r, js \ {j})

\* C34: after the exchange the runids of the candidates with a local
\* contributor are pairwise distinct and are exactly the numbers below
\* owned_count + num_shared; the owned candidates have the numbers below
\* owned_count; the candidates owned by the lower peer q have the numbers
\* from owned_count + shacumul(q) for bufcount(q) numbers, in the order of
\* their numbers at q; and the bufcounts of the lower peers add up to
\* num_shared.
C34_LocalIndices ==
  \A r \in Ranks :
    Exchanged(r) =>
      \A local \in {LocalTo(r)} : \A owned \in {OwnedBy(r)} :
      \A runid \in {[i \in local |-> me[r].construct[i].runid]} :
        /\ \A a \in local : \A b \in local : runid[a] = runid[b] => a = b
        /\ {runid[i] : i \in local}
             = 0 .. (me[r].owned_count + me[r].num_shared - 1)
        /\ {runid[i] : i \in owned} = 0 .. (me[r].owned_count - 1)
        /\ me[r].num_local_nodes = me[r].owned_count + me[r].num_shared
        /\ BufcountSum(r, LowerPeers(r)) = me[r].num_shared
        /\ \A j \in LowerPeers(r) :
           \A peer \in {me[r].peers[j]} :
           \A from \in {SharedFrom(r, peer.rank)} :
           \A atowner \in {[i \in from |->
                              OwnedNumber(peer.rank,
                                          CnodePoint(me[r].construct[i]))]} :
             /\ {runid[i] : i \in from}
                  = (me[r].owned_count + peer.shacumul)
                      .. (me[r].owned_count + peer.shacumul
                            + peer.bufcount - 1)
             /\ \A a \in from : \A b \in from :
                  runid[a] < runid[b] <=> atowner[a] < atowner[b]

\* a rank after the exchange with two lower peers that own several of its
\* nodes each, the nodes of one not numbered in the order of their creation
C34_Witness ==
  \E r \in Ranks :
    /\ Exchanged(r)
    /\ Cardinality({j \in LowerPeers(r) : me[r].peers[j].bufcount >= 2}) >= 2
    /\ \E a \in LocalTo(r) \ OwnedBy(r) : \E b \in LocalTo(r) \ OwnedBy(r) :
         /\ a < b
         /\ OwnerOf(me[r].construct[a]).rank = OwnerOf(me[r].construct[b]).rank
         /\ me[r].construct[b].runid < me[r].construct[a].runid


(***************************************************************************)
(* The translation of a query.                                             *)
(***************************************************************************)
\* rank r is in the drain of wait_query_reply
Draining(r) == pc[r] \in {"wait_query_reply", "sc_MPI_Waitsome"}

\* peer j of rank p answers a query in the step
Replies(p, j) ==
  /\ me[p].peers[j].done = 1
  /\ me'[p].peers[j].done = 2

\* C35: a step in which a rank answers a query is a step of the drain,
\* after its sort and before assign_element_nodes: every position of the
\* query leads through element_nodes to a candidate the rank owns, and the
\* reply carries at the same place the runid of that candidate, a number
\* below owned_count that the step does not change.  No step of the drain
\* changes element_nodes, configuration or face_code of the rank.
C35_ReplyAfterSort ==
  [][\A p \in Ranks :
       /\ Draining(p) =>
            /\ me'[p].element_nodes = me[p].element_nodes
            /\ me'[p].configuration = me[p].configuration
            /\ me'[p].face_code = me[p].face_code
       /\ \A j \in 1 .. Len(me[p].peers) :
            Replies(p, j) =>
              LET q == me[p].peers[j].rank
                  query == Between(net, q, p, P4EST_COMM_TNODES_QUERY)
                  reply == Between(net' \ net, p, q, P4EST_COMM_TNODES_REPLY)
              IN /\ pc[p] = "sc_MPI_Waitsome"
                 /\ Cardinality(query) = 1
                 /\ Cardinality(reply) = 1
                 /\ \A qm \in query : \A rm \in reply :
                      /\ Len(rm.data) = Len(qm.data)
                      /\ \A i \in 1 .. Len(qm.data) :
                           LET lni == At(me[p].element_nodes, qm.data[i])
                           IN /\ lni \in 0 .. (Len(me[p].construct) - 1)
                              /\ (lni + 1) \in OwnedBy(p)
                              /\ rm.data[i] = At(me[p].construct, lni).runid
                              /\ rm.data[i] \in 0 .. (me[p].owned_count - 1)
                              /\ At(me'[p].construct, lni).runid = rm.data[i]
                              /\ rm.data[i]
                                   = OwnedNumber(p, ElementPoint(
                                       p, qm.data[i] \div me[p].vnodes,
                                       qm.data[i] % me[p].vnodes))]_vars

\* a rank has answered a query of two entries or more and is still in the
\* drain
C35_Witness ==
  \E p \in Ranks : \E j \in 1 .. Len(me[p].peers) :
    /\ Draining(p)
    /\ me[p].peers[j].done = 2
    /\ me[p].peers[j].bufcount >= 2
    /\ Between(net, p, me[p].peers[j].rank, P4EST_COMM_TNODES_REPLY) # {}


(***************************************************************************)
(* The positions of a query.                                               *)
(***************************************************************************)
\* the positions of the queries that peer j of rank p answers in the step
Processed(p, j) ==
  UNION {Range(qm.data) :
           qm \in Between(net, me[p].peers[j].rank, p,
                          P4EST_COMM_TNODES_QUERY)}

\* three trees in a row, numbered right, left, middle; the middle one is
\* refined once
RowForest ==
  << [x |-> 4, y |-> 0, len |-> 2, level |-> 0],
     [x |-> 0, y |-> 0, len |-> 2, level |-> 0] >>
  \o [d \in 1 .. 4 |->
        Child([x |-> 2, y |-> 0, len |-> 2, level |-> 0], d - 1)]

\* rank 0 holds the outer trees and the first leaf of the middle tree, rank
\* 1 the next two leaves and rank 2 the last
RowInit ==
  \E fs \in BOOLEAN : \E wf \in BOOLEAN :
    Start([quads |-> RowForest, gfq |-> << 0, 3, 5, 6 >>,
           full_style |-> fs, with_faces |-> wf, with_ghost |-> TRUE])

RowSpec == RowInit /\ [][Next]_vars

\* C36 as stated: every position of a query that a rank answers is at
\* least 0 and below vnodes * owned_count of that rank, the bound asserted
\* before the lookup in element_nodes.
C36_AsStated ==
  [][\A p \in Ranks : \A j \in 1 .. Len(me[p].peers) :
       Replies(p, j) =>
         \A epos \in Processed(p, j) :
           0 <= epos /\ epos < me[p].vnodes * me[p].owned_count]_vars

(***************************************************************************)
(* Registration of a slot of element_nodes.  The forest of SplitSpec has   *)
(* the children 0 and 3 of the root refined: the children 1 and 2 have two *)
(* split faces each.                                                       *)
(***************************************************************************)
SplitInit ==
  \E gfq \in {<< 0, 4, 6, 10 >>, << 0, 3, 7, 10 >>} :
    \E fs \in BOOLEAN : \E wf \in BOOLEAN :
      Start([quads |-> LeavesOf({0, 3}), gfq |-> gfq,
             full_style |-> fs, with_faces |-> wf, with_ghost |-> TRUE])

SplitSpec == SplitInit /\ [][Next]_vars

\* every candidate node with a local contributor is the entry of the slot
\* that the contributor names
SlotsHeld(m) ==
  \A i \in 1 .. Len(m.construct) :
    \A k \in 1 .. Len(m.construct[i].contr) :
      m.construct[i].contr[k].rank = m.mpirank =>
        At(m.element_nodes,
           m.construct[i].contr[k].le * m.vnodes
             + m.construct[i].contr[k].nodene) = m.construct[i].runid

\* C37: during the traversal a slot of element_nodes is written only while
\* it holds -1, and no node that a local element registered is left without
\* its slot: no local (element, position) pair is registered twice,
\* promotion and elements with two split faces included.
C37_SlotRegisteredOnce ==
  [][\A r \in Ranks :
       (pc[r] = "p4est_iterate" /\ pc'[r] = "p4est_iterate") =>
         /\ \A i \in 1 .. Len(me[r].element_nodes) :
              me'[r].element_nodes[i] # me[r].element_nodes[i] =>
                me[r].element_nodes[i] = -1
         /\ SlotsHeld(me'[r])]_vars

\* a half-style element with faces that was promoted and has two split faces
C37_Witness ==
  \E r \in Ranks :
    /\ pc[r] = "p4est_iterate"
    /\ ~me[r].full_style /\ me[r].with_faces
    /\ \E le \in 0 .. (me[r].num_local_elements - 1) :
         /\ Cardinality({f \in 0 .. 3 :
                           Bit(At(me[r].configuration, le), f) = 1}) = 2
         /\ At(me[r].element_nodes, le * me[r].vnodes + At(n_cface, 3)) # -1

(***************************************************************************)
(* The owner of a shared node is the lowest of its ranks.                  *)
(***************************************************************************)
\* the entries of nonlocal_nodes that a reply has filled
Filled(r) ==
  {k \in 1 .. Len(me[r].nonlocal_nodes) : me[r].nonlocal_nodes[k] # -1}

\* C38: a node that a local element refers to and another rank owns is
\* owned by a rank strictly below the local one, every global number in
\* nonlocal_nodes is strictly below the rank's global_offset, and every
\* remote contributor of a node the rank owns has a rank strictly above it.
C38_OwnerBelow ==
  \A r \in Ranks :
    /\ \A i \in LocalTo(r) \ OwnedBy(r) :
         OwnerOf(me[r].construct[i]).rank < r
    /\ \A i \in OwnedBy(r) :
         \A q \in ContrRanks(me[r].construct[i]) \ {r} : q > r
    /\ Gathered(r) =>
         \A k \in Filled(r) :
           /\ 0 <= me[r].nonlocal_nodes[k]
           /\ me[r].nonlocal_nodes[k] < me[r].global_offset

\* a returned rank that holds shared-in nodes and owns a node with a remote
\* contributor
C38_Witness ==
  \E r \in Ranks :
    /\ Returned(r)
    /\ Filled(r) # {}
    /\ LocalTo(r) \ OwnedBy(r) # {}
    /\ \E i \in OwnedBy(r) : ContrRanks(me[r].construct[i]) \ {r} # {}

(***************************************************************************)
(* The order of the sharers and of their node lists.                       *)
(***************************************************************************)
\* sort_peers has returned on rank r
SharersPushed(r) == Gathered(r) /\ pc[r] # "sort_peers"

Increasing(s) ==
  \A a \in 1 .. Len(s) : \A b \in 1 .. Len(s) : a < b => s[a] < s[b]

\* C39: on a rank with at least one peer, from the return of sort_peers on,
\* the sharers are in strictly increasing rank order, one per peer and one
\* for the rank itself, locsharer names the local one, and the shared_nodes
\* of every sharer are strictly increasing with every index below
\* owned_count before every index from owned_count on.
C39_SharersOrdered ==
  \A r \in Ranks :
    (SharersPushed(r) /\ Len(me[r].peers) > 0) =>
      \A sh \in {me[r].sharers} :
        /\ Len(sh) = Len(me[r].peers) + 1
        /\ Increasing([i \in 1 .. Len(sh) |-> sh[i].rank])
        /\ At(sh, me[r].locsharer).rank = r
        /\ \A i \in 1 .. Len(sh) :
             /\ Increasing(sh[i].shared_nodes)
             /\ \A a \in 1 .. Len(sh[i].shared_nodes) :
                  \A b \in 1 .. Len(sh[i].shared_nodes) :
                    (sh[i].shared_nodes[a] < me[r].owned_count
                       /\ sh[i].shared_nodes[b] >= me[r].owned_count) => a < b

\* a returned rank between a lower and a higher peer with a sharer that
\* lists owned and shared-in nodes
C39_Witness ==
  \E r \in Ranks :
    /\ Returned(r)
    /\ 0 < me[r].locsharer /\ me[r].locsharer < Len(me[r].sharers) - 1
    /\ \E i \in 1 .. Len(me[r].sharers) :
         /\ \E a \in Range(me[r].sharers[i].shared_nodes) :
              a < me[r].owned_count
         /\ \E b \in Range(me[r].sharers[i].shared_nodes) :
              b >= me[r].owned_count

(***************************************************************************)
(* The face code of the returned structure.                                *)
(***************************************************************************)
\* the leaf of local element le of rank r
Leaf(r, le) == At(p4est.quads, At(p4est.gfq, r) + le)

\* a face of the axis (0 for x, 1 for y) of local element le of rank r has a
\* larger leaf across it
Hangs(r, le, axis) ==
  \E f \in {2 * axis, 2 * axis + 1} :
    \E h \in FaceNeighbors(p4est.quads, At(p4est.gfq, r) + le, f) :
      At(p4est.quads, h).level < Leaf(r, le).level

\* the face codes of a returned rank are those of the forest
FaceCodes ==
  \A r \in Ranks :
    Returned(r) =>
      \A le \in Elements(r) :
        \A code \in {At(me[r].face_code, le)} :
          IF ~Hangs(r, le, 0) /\ ~Hangs(r, le, 1)
            THEN code = 0
            ELSE /\ code % 4 = p4est_quadrant_child_id(Leaf(r, le))
                 /\ (Bit(code, 2) = 1) <=> Hangs(r, le, 0)
                 /\ (Bit(code, 3) = 1) <=> Hangs(r, le, 1)
                 /\ code < 16

\* C40: on a returned rank the face code of a local element none of whose
\* faces has a larger leaf across it is 0; the face code of any other has
\* the child id of the element in its two low bits, bit 2 set exactly when
\* a larger leaf lies across face 0 or 1, bit 3 set exactly when a larger
\* leaf lies across face 2 or 3, and no higher bit.  An axis bit that is
\* set is never cleared, so it is set at most once.
C40_FaceCodeReturned ==
  [][/\ FaceCodes'
     /\ \A r \in Ranks : \A le \in Elements(r) : \A axis \in 0 .. 1 :
          Bit(At(me[r].face_code, le), P4EST_DIM + axis) = 1 =>
            Bit(At(me'[r].face_code, le), P4EST_DIM + axis) = 1]_vars

\* a returned rank with an element of child id 1 that hangs on the x axis
\* only, one of child id 2 that hangs on the y axis only, and one that does
\* not hang
C40_Witness ==
  \E r \in Ranks :
    /\ Returned(r)
    /\ \E le \in Elements(r) :
         /\ p4est_quadrant_child_id(Leaf(r, le)) = 1
         /\ Hangs(r, le, 0) /\ ~Hangs(r, le, 1)
         /\ At(me[r].face_code, le) = 5
    /\ \E le \in Elements(r) :
         /\ p4est_quadrant_child_id(Leaf(r, le)) = 2
         /\ ~Hangs(r, le, 0) /\ Hangs(r, le, 1)
         /\ At(me[r].face_code, le) = 10
    /\ \E le \in Elements(r) : At(me[r].face_code, le) = 0

====
